---------------------------- MODULE Spec2Model ----------------------------
(***************************************************************************)
(* Dictionary lookup and morphological analysis engine of the Digital Pali *)
(* Reader backend (internal/xml/dictionary.go, internal/cache/cache.go).   *)
(*                                                                         *)
(* A Go string is a sequence of bytes.  A byte is written as a token: an   *)
(* ASCII byte is the one-character string of that character, any other     *)
(* byte is the two hex digits of its value ("C4", "81").  A rune is the    *)
(* sequence of the bytes of its UTF-8 encoding, so string(r) is r itself.  *)
(***************************************************************************)
EXTENDS Integers, Sequences, FiniteSets, TLC

VARIABLES
    op,        \* the operation the last step ran ("none" after construction)
    arg,       \* its arguments
    ret,       \* the value it returned
    calls,     \* the number of calls made on the parser so far
    files,     \* the dictionary volumes on disk: source -> volume -> entries
    readable,  \* the volume files that os.ReadFile can read now
    cache,     \* Cache.items: key -> [value, expiresAt]
    now,       \* time.Now()
    stack      \* the chain of active findCompoundBreaks invocations

vars == <<op, arg, ret, calls, files, readable, cache, now, stack>>

----------------------------------------------------------------------------
(* Bytes and runes *)

\* The bytes of the model in increasing byte value (Go compares strings
\* bytewise).
ByteOrder ==
    << " ", "\"", "&", "-", ".", "/",
       "0", "1", "2", "3", "4", "5", "6", "7", "8", "9",
       ";", "<", "=", ">",
       "A", "B", "D", "I", "L", "M", "N", "T", "U", "[", "]",
       "a", "b", "c", "d", "e", "g", "h", "i", "j", "k", "l", "m", "n", "o",
       "p", "r", "s", "t", "u", "v", "y", "~",
       "80", "81", "82", "83", "84", "85", "86", "87", "8C", "8D", "91", "9B",
       "9D", "A3", "A5", "AA", "AB", "AC", "AD", "B1", "B6", "B7", "B8", "B9",
       "BD", "BF",
       "C3", "C4", "C5", "E1", "EF" >>

ByteRank(b) == CHOOSE i \in 1..Len(ByteOrder) : ByteOrder[i] = b

\* UTF-8 classes of the non-ASCII bytes.
Cont == { "80", "81", "82", "83", "84", "85", "86", "87", "8C", "8D", "91",
          "9B", "9D", "A3", "A5", "AA", "AB", "AC", "AD", "B1", "B6", "B7",
          "B8", "B9", "BD", "BF" }
Lead2 == { "C3", "C4", "C5" }
Lead3 == { "E1", "EF" }

\* utf8.RuneError, U+FFFD.
RuneError == << "EF", "BF", "BD" >>

\* The Pali and Sanskrit letters of the tables, as runes: the vowels with a
\* macron (aa), the letters with a dot below (dt), a dot above (qn, om), a
\* tilde (tn), an acute (qs), and the capitals of the Pali ones.
Rune ==
    [ aa |-> << "C4", "81" >>,
      ii |-> << "C4", "AB" >>,
      uu |-> << "C5", "AB" >>,
      dt |-> << "E1", "B9", "AD" >>,
      dd |-> << "E1", "B8", "8D" >>,
      qn |-> << "E1", "B9", "85" >>,
      dn |-> << "E1", "B9", "87" >>,
      dm |-> << "E1", "B9", "83" >>,
      om |-> << "E1", "B9", "81" >>,
      tn |-> << "C3", "B1" >>,
      dl |-> << "E1", "B8", "B7" >>,
      AA |-> << "C4", "80" >>,
      II |-> << "C4", "AA" >>,
      UU |-> << "C5", "AA" >>,
      DT |-> << "E1", "B9", "AC" >>,
      DD |-> << "E1", "B8", "8C" >>,
      QN |-> << "E1", "B9", "84" >>,
      DN |-> << "E1", "B9", "86" >>,
      DM |-> << "E1", "B9", "82" >>,
      OM |-> << "E1", "B9", "80" >>,
      TN |-> << "C3", "91" >>,
      DL |-> << "E1", "B8", "B6" >>,
      dll |-> << "E1", "B8", "B9" >>,
      dr |-> << "E1", "B9", "9B" >>,
      drr |-> << "E1", "B9", "9D" >>,
      ds |-> << "E1", "B9", "A3" >>,
      qs |-> << "C5", "9B" >>,
      dh |-> << "E1", "B8", "A5" >> ]

\* utf8.DecodeRuneInString: the width of the rune at the head of s; an
\* invalid or truncated encoding has width 1.
RuneWidth(s) ==
    IF Len(s) >= 2 /\ s[1] \in Lead2 /\ s[2] \in Cont THEN 2
    ELSE IF Len(s) >= 3 /\ s[1] \in Lead3 /\ s[2] \in Cont /\ s[3] \in Cont
         THEN 3
    ELSE 1

\* Whether the head of s decodes to RuneError by being invalid.
HeadInvalid(s) == RuneWidth(s) = 1 /\ s[1] \in (Cont \cup Lead2 \cup Lead3)

RECURSIVE Runes(_)
\* []rune(s): the runes of s, every invalid byte decoded as RuneError.
Runes(s) ==
    IF s = << >> THEN << >>
    ELSE LET w == RuneWidth(s)
             r == IF HeadInvalid(s) THEN RuneError ELSE SubSeq(s, 1, w)
         IN  << r >> \o Runes(SubSeq(s, w + 1, Len(s)))

RECURSIVE Flatten(_)
\* string(runes)
Flatten(rs) == IF rs = << >> THEN << >> ELSE Head(rs) \o Flatten(Tail(rs))

\* unicode.ToLower on the letters of the model; every other rune is its own
\* lower case.
LowerTable ==
    << << << "A" >>, << "a" >> >>, << << "B" >>, << "b" >> >>,
       << << "D" >>, << "d" >> >>, << << "I" >>, << "i" >> >>,
       << << "L" >>, << "l" >> >>, << << "M" >>, << "m" >> >>,
       << << "N" >>, << "n" >> >>, << << "T" >>, << "t" >> >>,
       << << "U" >>, << "u" >> >>,
       << Rune.AA, Rune.aa >>, << Rune.II, Rune.ii >>, << Rune.UU, Rune.uu >>,
       << Rune.DT, Rune.dt >>, << Rune.DD, Rune.dd >>, << Rune.QN, Rune.qn >>,
       << Rune.DN, Rune.dn >>, << Rune.DM, Rune.dm >>, << Rune.OM, Rune.om >>,
       << Rune.TN, Rune.tn >>, << Rune.DL, Rune.dl >> >>

\* The lower case of r by the pairs of table
LowerIn(table, r) ==
    IF \E k \in 1..Len(table) : table[k][1] = r
    THEN table[CHOOSE k \in 1..Len(table) : table[k][1] = r][2]
    ELSE r

LowerRune(r) == LowerIn(LowerTable, r)

RECURSIVE MapLower(_)
MapLower(rs) ==
    IF rs = << >> THEN << >> ELSE << LowerRune(Head(rs)) >> \o MapLower(Tail(rs))

\* strings.ToLower: maps every rune to lower case; strings.Map writes an
\* invalid byte back as the three bytes of RuneError.
ToLower(s) == Flatten(MapLower(Runes(s)))

----------------------------------------------------------------------------
(* package strings *)

HasPrefix(s, p) == Len(p) <= Len(s) /\ \A i \in 1..Len(p) : s[i] = p[i]

HasSuffix(s, x) == Len(x) <= Len(s) /\ SubSeq(s, Len(s) - Len(x) + 1, Len(s)) = x

TrimSuffix(s, x) == IF HasSuffix(s, x) THEN SubSeq(s, 1, Len(s) - Len(x)) ELSE s

Contains(s, x) == \E i \in 0..(Len(s) - Len(x)) : SubSeq(s, i + 1, i + Len(x)) = x

\* s < t for Go strings: bytewise lexicographic order.
StrLess(s, t) ==
    \E k \in 1..(Len(t)) :
        /\ k - 1 <= Len(s)
        /\ SubSeq(s, 1, k - 1) = SubSeq(t, 1, k - 1)
        /\ (k > Len(s) \/ ByteRank(s[k]) < ByteRank(t[k]))

RECURSIVE ReplaceAll(_, _, _)
\* strings.ReplaceAll(s, old, new) for a non-empty old: non-overlapping
\* occurrences, left to right.
ReplaceAll(s, old, new) ==
    IF Len(s) < Len(old) THEN s
    ELSE IF HasPrefix(s, old)
         THEN new \o ReplaceAll(SubSeq(s, Len(old) + 1, Len(s)), old, new)
         ELSE << s[1] >> \o ReplaceAll(Tail(s), old, new)

\* The pairs of tab whose old string is a prefix of s.
Matching(tab, s) == { k \in 1..Len(tab) : HasPrefix(s, tab[k][1]) }

RECURSIVE Replace(_, _)

\* The generic replacer at a byte of s where the pair k of tab is the one
\* substituted.
Substitute(tab, s, k) ==
    tab[k][2] \o Replace(tab, SubSeq(s, Len(tab[k][1]) + 1, Len(s)))

\* The generic replacer at a byte of s where the pairs ms of tab match.
ReplaceHead(tab, s, ms) ==
    IF ms = {} THEN << s[1] >> \o Replace(tab, Tail(s))
    ELSE Substitute(tab, s, CHOOSE m \in ms : \A n \in ms : m <= n)

\* strings.NewReplacer(tab...).Replace(s), the generic replacer: at each
\* byte the pair earliest in argument order among those matching there is
\* substituted; a byte where none matches is copied.
Replace(tab, s) ==
    IF s = << >> THEN << >> ELSE ReplaceHead(tab, s, Matching(tab, s))

----------------------------------------------------------------------------
(* Transliteration codec *)

VelthuisTable ==
    << << Rune.aa, << "a", "a" >> >>, << Rune.ii, << "i", "i" >> >>,
       << Rune.uu, << "u", "u" >> >>,
       << Rune.dt, << ".", "t" >> >>, << Rune.dd, << ".", "d" >> >>,
       << Rune.qn, << "\"", "n" >> >>,
       << Rune.dn, << ".", "n" >> >>, << Rune.dm, << ".", "m" >> >>,
       << Rune.om, << ".", "m" >> >>,
       << Rune.tn, << "~", "n" >> >>, << Rune.dl, << ".", "l" >> >>,
       << Rune.AA, << "A", "A" >> >>, << Rune.II, << "I", "I" >> >>,
       << Rune.UU, << "U", "U" >> >>,
       << Rune.DT, << ".", "T" >> >>, << Rune.DD, << ".", "D" >> >>,
       << Rune.QN, << "\"", "N" >> >>,
       << Rune.DN, << ".", "N" >> >>, << Rune.DM, << ".", "M" >> >>,
       << Rune.OM, << ".", "M" >> >>,
       << Rune.TN, << "~", "N" >> >>, << Rune.DL, << ".", "L" >> >>,
       << Rune.dll, << ".", "l", "l" >> >>, << Rune.dr, << ".", "r" >> >>,
       << Rune.drr, << ".", "r", "r" >> >>,
       << Rune.ds, << ".", "s" >> >>, << Rune.qs, << "\"", "s" >> >>,
       << Rune.dh, << ".", "h" >> >> >>

\* toVelthuis: Unicode Pali to Velthuis notation.
toVelthuis(input) == IF input = << >> THEN input ELSE Replace(VelthuisTable, input)

RECURSIVE StripMark(_, _, _)
\* regexp `m([set])` replaced by "$1": the mark byte m is dropped where a
\* byte of set follows it.
StripMark(s, m, set) ==
    IF s = << >> THEN << >>
    ELSE IF Len(s) >= 2 /\ s[1] = m /\ s[2] \in set
         THEN << s[2] >> \o StripMark(SubSeq(s, 3, Len(s)), m, set)
         ELSE << s[1] >> \o StripMark(Tail(s), m, set)

Stops == { "k", "g", "c", "j", "t", "d", "p", "b" }

RECURSIVE StopCluster(_)
\* regexp `([kgcjtdpb])[kgcjtdpb]?h?` replaced by "$1": a stop, with the
\* stop and the h that may follow it, becomes the stop alone.
StopCluster(s) ==
    IF s = << >> THEN << >>
    ELSE IF s[1] \in Stops
         THEN LET a == IF Len(s) >= 2 /\ s[2] \in Stops THEN 1 ELSE 0
                  b == IF Len(s) >= 2 + a /\ s[2 + a] = "h" THEN 1 ELSE 0
              IN  << s[1] >> \o StopCluster(SubSeq(s, 2 + a + b, Len(s)))
         ELSE << s[1] >> \o StopCluster(Tail(s))

\* toFuzzy: the fuzzy form of a word for loose matching.
toFuzzy(input) ==
    IF input = << >> THEN input
    ELSE LET w0 == toVelthuis(ToLower(input))
             w1 == StripMark(w0, ".", { "t", "d", "n", "l", "m", "T", "D", "N", "L", "M" })
             w2 == StripMark(w1, "~", { "n", "N" })
             w3 == StripMark(w2, "\"", { "n", "N" })
             w4 == ReplaceAll(w3, << "a", "a" >>, << "a" >>)
             w5 == ReplaceAll(w4, << "i", "i" >>, << "i" >>)
             w6 == ReplaceAll(w5, << "u", "u" >>, << "u" >>)
             w7 == ReplaceAll(w6, << "n", "n" >>, << "n" >>)
             w8 == ReplaceAll(w7, << "m", "m" >>, << "m" >>)
             w9 == ReplaceAll(w8, << "y", "y" >>, << "y" >>)
             w10 == ReplaceAll(w9, << "l", "l" >>, << "l" >>)
             w11 == ReplaceAll(w10, << "s", "s" >>, << "s" >>)
         IN  StopCluster(w11)

NormalizeTable ==
    << << Rune.aa, << "a" >> >>, << Rune.ii, << "i" >> >>, << Rune.uu, << "u" >> >>,
       << Rune.dt, << "t" >> >>, << Rune.dd, << "d" >> >>, << Rune.dn, << "n" >> >>,
       << Rune.qn, << "n" >> >>, << Rune.tn, << "n" >> >>, << Rune.dm, << "m" >> >>,
       << Rune.om, << "m" >> >>,
       << Rune.dl, << "l" >> >>,
       << << "a", "a" >>, << "a" >> >>, << << "i", "i" >>, << "i" >> >>,
       << << "u", "u" >>, << "u" >> >> >>

\* normalizeWord: lower case, diacritics removed.
normalizeWord(word) == Replace(NormalizeTable, ToLower(word))

UnicodeChars ==
    { Rune.aa, Rune.ii, Rune.uu, Rune.dt, Rune.dd, Rune.qn, Rune.dn, Rune.dm, Rune.om, Rune.tn, Rune.dl,
      Rune.AA, Rune.II, Rune.UU, Rune.DT, Rune.DD, Rune.QN, Rune.DN, Rune.DM, Rune.OM, Rune.TN, Rune.DL }

\* hasUnicodeChars: whether s holds a Pali diacritic.
hasUnicodeChars(s) == \E k \in 1..Len(Runes(s)) : Runes(s)[k] \in UnicodeChars

----------------------------------------------------------------------------
(* Headword extractor *)

\* html.UnescapeString, for the entities of the markup characters.
EntityTable ==
    << << << "&", "l", "t", ";" >>, << "<" >> >>,
       << << "&", "g", "t", ";" >>, << ">" >> >>,
       << << "&", "a", "m", "p", ";" >>, << "&" >> >> >>

UnescapeString(s) == Replace(EntityTable, s)

RECURSIVE TrimLeft(_)
TrimLeft(s) == IF s # << >> /\ s[1] = " " THEN TrimLeft(Tail(s)) ELSE s

RECURSIVE TrimRight(_)
TrimRight(s) ==
    IF s # << >> /\ s[Len(s)] = " " THEN TrimRight(SubSeq(s, 1, Len(s) - 1)) ELSE s

\* strings.TrimSpace
TrimSpace(s) == TrimLeft(TrimRight(s))

\* The least k >= from with pat standing at s[k], or 0.
IndexFrom(s, pat, from) ==
    LET ks == { k \in from..(Len(s) - Len(pat) + 1) : SubSeq(s, k, k + Len(pat) - 1) = pat }
    IN  IF ks = {} THEN 0 ELSE CHOOSE k \in ks : \A j \in ks : k <= j

\* The length of the longest run of bytes other than stop at the head of s.
RECURSIVE RunLen(_, _)
RunLen(s, stop) == IF s = << >> \/ s[1] = stop THEN 0 ELSE 1 + RunLen(Tail(s), stop)

RECURSIVE DropDelimited(_, _, _, _)
\* regexp open[^stop]*close replaced by "": every open that a run of bytes
\* other than stop and then close follow is dropped with them.
DropDelimited(s, open, stop, close) ==
    IF s = << >> THEN << >>
    ELSE LET rest == SubSeq(s, Len(open) + 1, Len(s))
             n == RunLen(rest, stop)
             after == SubSeq(rest, n + 1, Len(rest))
         IN  IF HasPrefix(s, open) /\ HasPrefix(after, close)
             THEN DropDelimited(SubSeq(after, Len(close) + 1, Len(after)), open, stop, close)
             ELSE << s[1] >> \o DropDelimited(Tail(s), open, stop, close)

RECURSIVE DropTags(_)
\* regexp `<[^>]+>` replaced by "".
DropTags(s) ==
    IF s = << >> THEN << >>
    ELSE LET n == RunLen(Tail(s), ">")
         IN  IF s[1] = "<" /\ n >= 1 /\ n + 1 < Len(s)
             THEN DropTags(SubSeq(s, n + 3, Len(s)))
             ELSE << s[1] >> \o DropTags(Tail(s))

\* The mutant of DropTrailingDashes that drops "--" wherever it stands.
DropEveryDashes(s) == ReplaceAll(s, << "-", "-" >>, << >>)

\* regexp `\s*--\s*$` replaced by "".
DropTrailingDashes(s) ==
    LET t == TrimRight(s)
    IN  IF HasSuffix(t, << "-", "-" >>) THEN TrimRight(SubSeq(t, 1, Len(t) - 2)) ELSE s

RECURSIVE CollapseSpaces(_)
\* regexp `\s+` replaced by " ".
CollapseSpaces(s) ==
    IF s = << >> THEN << >>
    ELSE IF s[1] = " " THEN << " " >> \o CollapseSpaces(TrimLeft(s))
    ELSE << s[1] >> \o CollapseSpaces(Tail(s))

\* extractWordFromPED: the headword of a PED entry, "" when the entry does
\* not begin with <b>...</b>.
extractWordFromPED(entry) ==
    LET decoded == TrimLeft(UnescapeString(entry))
        body == SubSeq(decoded, 4, Len(decoded))
        close == IndexFrom(body, << "<", "/", "b", ">" >>, 2)
    IN  IF HasPrefix(decoded, << "<", "b", ">" >>) /\ close # 0
        THEN LET w0 == SubSeq(body, 1, close - 1)
                 w1 == DropDelimited(w0, << "<", "s", "u", "p", ">" >>, "<",
                                     << "<", "/", "s", "u", "p", ">" >>)
                 w2 == DropTags(w1)
                 w3 == DropTrailingDashes(w2)
             IN  TrimSpace(CollapseSpaces(w3))
        ELSE << >>

RECURSIVE FindDelimited(_, _, _, _)
\* regexp open([^stop]+)close: the submatch of the leftmost match, or "".
FindDelimited(s, open, stop, close) ==
    IF s = << >> THEN << >>
    ELSE LET rest == SubSeq(s, Len(open) + 1, Len(s))
             n == RunLen(rest, stop)
         IN  IF HasPrefix(s, open) /\ n >= 1
                  /\ HasPrefix(SubSeq(rest, n + 1, Len(rest)), close)
             THEN SubSeq(rest, 1, n)
             ELSE FindDelimited(Tail(s), open, stop, close)

DivHuge == << "[", "d", "i", "v", " ", "c", "l", "a", "s", "s", "=", "\"", "h", "u", "g", "e", "\"", "]" >>

\* extractWordFromDPPN: the title of a DPPN entry, in [div class="huge"] or
\* else in [b].
extractWordFromDPPN(entry) ==
    LET huge == FindDelimited(entry, DivHuge, "[", << "[", "/", "d", "i", "v", "]" >>)
        bold == FindDelimited(entry, << "[", "b", "]" >>, "[", << "[", "/", "b", "]" >>)
    IN  IF huge # << >> THEN TrimSpace(huge)
        ELSE IF bold # << >> THEN TrimSpace(bold)
        ELSE << >>

\* formatDefinition: a PED entry for display.
formatDefinition(entry) == TrimSpace(UnescapeString(entry))

DivClass == << "[", "d", "i", "v", " ", "c", "l", "a", "s", "s", "=", "\"" >>

RECURSIVE RewriteDivs(_)
\* regexp `\[div class="([^"]+)"\]` replaced by `<div class="$1">`.
RewriteDivs(s) ==
    IF s = << >> THEN << >>
    ELSE LET rest == SubSeq(s, Len(DivClass) + 1, Len(s))
             n == RunLen(rest, "\"")
             after == SubSeq(rest, n + 1, Len(rest))
         IN  IF HasPrefix(s, DivClass) /\ n >= 1 /\ HasPrefix(after, << "\"", "]" >>)
             THEN << "<" >> \o SubSeq(DivClass, 2, Len(DivClass)) \o SubSeq(rest, 1, n)
                    \o << "\"", ">" >> \o RewriteDivs(SubSeq(after, 3, Len(after)))
             ELSE << s[1] >> \o RewriteDivs(Tail(s))

AnchorOpen == << "[", "a", " ", "h", "r", "e", "f", "=", "\"" >>

RECURSIVE DropAnchors(_)
\* regexp `\[a href="[^"]*"[^\]]*\]` replaced by "".
DropAnchors(s) ==
    IF s = << >> THEN << >>
    ELSE LET rest == SubSeq(s, Len(AnchorOpen) + 1, Len(s))
             n == RunLen(rest, "\"")
             after == SubSeq(rest, n + 2, Len(rest))
             k == RunLen(after, "]")
         IN  IF HasPrefix(s, AnchorOpen) /\ n < Len(rest) /\ k < Len(after)
             THEN DropAnchors(SubSeq(after, k + 2, Len(after)))
             ELSE << s[1] >> \o DropAnchors(Tail(s))

\* formatDPPNDefinition: the bracket notation of a DPPN entry as HTML.
formatDPPNDefinition(entry) ==
    LET d1 == RewriteDivs(entry)
        d2 == ReplaceAll(d1, << "[", "/", "d", "i", "v", "]" >>, << "<", "/", "d", "i", "v", ">" >>)
        d3 == ReplaceAll(d2, << "[", "p", "]" >>, << "<", "p", ">" >>)
        d4 == ReplaceAll(d3, << "[", "/", "p", "]" >>, << "<", "/", "p", ">" >>)
        d5 == DropAnchors(d4)
    IN  ReplaceAll(d5, << "[", "/", "a", "]" >>, << >>)

----------------------------------------------------------------------------
(* The TTL cache *)

\* cache.New(1 * time.Hour), in ticks of the clock
CacheTTL == 1

\* The mutant of CacheHit that does not look at the expiry.
CacheHitStale(c, key) == key \in DOMAIN c

\* Cache.Get finds an item: it exists and time.Now() is not after its
\* expiry.
CacheHit(c, key) == key \in DOMAIN c /\ ~(now > c[key].expiresAt)

\* Cache.Set
CacheSet(c, key, value) == (key :> [value |-> value, expiresAt |-> now + CacheTTL]) @@ c

----------------------------------------------------------------------------
(* Volume store *)

\* for vol := 0; vol <= 4; vol++
PedFirstVol == 0
PedLastVol == 4
\* for vol := 1; vol <= 9; vol++
DppnFirstVol == 1
DppnLastVol == 9

\* loadPEDVolume and loadDPPNVolume: the entries of volume vol of source
\* src ("ped", "dppn"), from the cache or else from the file, which is then
\* cached; a file that cannot be read or parsed is an error and nothing is
\* cached.
loadVolume(c, src, vol) ==
    LET cacheKey == << src, "vol", vol >>
    IN  IF CacheHit(c, cacheKey)
        THEN [err |-> FALSE, entries |-> c[cacheKey].value, cache |-> c]
        ELSE IF << src, vol >> \notin readable
        THEN [err |-> TRUE, entries |-> << >>, cache |-> c]
        ELSE [err |-> FALSE, entries |-> files[src][vol],
              cache |-> CacheSet(c, cacheKey, files[src][vol])]

----------------------------------------------------------------------------
(* Match and rank engine *)

\* matchesQuery: exact, prefix, or (unless startsWithOnly) contains.
matchesQuery(word, query, startsWithOnly) ==
    \/ word = query
    \/ HasPrefix(word, query)
    \/ (~startsWithOnly /\ Contains(word, query))

\* queryNorm of sortResultsByRelevance
QueryNorm(query, fuzzy) == IF fuzzy THEN toFuzzy(query) ELSE normalizeWord(query)

\* iNorm, jNorm of the comparison
EntryNorm(e, fuzzy) == IF fuzzy THEN toFuzzy(e.Word) ELSE e.WordNorm

\* The mutant of Less that has lost the exact and prefix priorities.
LessAlphabetical(a, b, queryNorm, fuzzy) ==
    StrLess(EntryNorm(a, fuzzy), EntryNorm(b, fuzzy))

\* The body of the less function on iNorm and jNorm: exact matches first,
\* prefix matches second, then alphabetical.
LessNorm(iNorm, jNorm, queryNorm) ==
    IF (iNorm = queryNorm) # (jNorm = queryNorm) THEN iNorm = queryNorm
    ELSE IF HasPrefix(iNorm, queryNorm) # HasPrefix(jNorm, queryNorm)
    THEN HasPrefix(iNorm, queryNorm)
    ELSE StrLess(iNorm, jNorm)

\* The less function handed to sort.Slice
Less(a, b, queryNorm, fuzzy) ==
    LessNorm(EntryNorm(a, fuzzy), EntryNorm(b, fuzzy), queryNorm)

\* The rearrangements of 1..n
Rearrangements(n) == { f \in [1..n -> 1..n] : \A i \in 1..n : \E j \in 1..n : f[j] = i }

\* sortResultsByRelevance under the contract of sort.Slice, which does not
\* promise a stable sort: every rearrangement of results in which no
\* element is less than one standing before it.
SortOutcomes(results, query, fuzzy) ==
    LET qn == QueryNorm(query, fuzzy)
        n == Len(results)
    IN  { [i \in 1..n |-> results[f[i]]] : f \in
            { g \in Rearrangements(n) :
                \A i \in 1..n : \A j \in 1..n :
                    i < j => ~Less(results[g[j]], results[g[i]], qn, fuzzy) } }

RECURSIVE InsertSorted(_, _, _, _)
\* One pass of the insertion sort: e, appended to the sorted out, moves
\* down while it is less than the element before it.
InsertSorted(out, e, qn, fuzzy) ==
    IF out # << >> /\ Less(e, out[Len(out)], qn, fuzzy)
    THEN Append(InsertSorted(SubSeq(out, 1, Len(out) - 1), e, qn, fuzzy), out[Len(out)])
    ELSE Append(out, e)

RECURSIVE InsertionSort(_, _, _, _)
InsertionSort(out, rest, qn, fuzzy) ==
    IF rest = << >> THEN out
    ELSE InsertionSort(InsertSorted(out, Head(rest), qn, fuzzy), Tail(rest), qn, fuzzy)

\* sortResultsByRelevance as sort.Slice runs it on a slice of at most 12
\* elements, which is every result list of the dictionaries below: an
\* insertion sort.
sortResultsByRelevance(results, query, fuzzy) ==
    InsertionSort(<< >>, results, QueryNorm(query, fuzzy), fuzzy)

----------------------------------------------------------------------------
(* Lookup over the volumes of one dictionary *)

RECURSIVE Itoa(_)
\* fmt.Sprintf("%d", n), n >= 0
Itoa(n) ==
    LET digit(d) == << "0", "1", "2", "3", "4", "5", "6", "7", "8", "9" >>[d + 1]
    IN  IF n < 10 THEN << digit(n) >> ELSE Itoa(n \div 10) \o << digit(n % 10) >>

\* fmt.Sprintf("%d/%d", vol, i)
EntryID(vol, i) == Itoa(vol) \o << "/" >> \o Itoa(i)

\* The query as the scan uses it: matchQuery, and whether the lower-cased
\* query holds a diacritic.
Prepared(query, fuzzy, startsWithOnly) ==
    LET queryLower == ToLower(query)
    IN  [ matchQuery |-> IF fuzzy THEN toFuzzy(queryLower) ELSE queryLower,
          fuzzy |-> fuzzy,
          startsWithOnly |-> startsWithOnly,
          queryHasUnicode |-> hasUnicodeChars(queryLower) ]

\* wordToMatch: the entry word as it is compared with matchQuery.
WordToMatch(entryWord, q) ==
    IF q.fuzzy THEN toFuzzy(entryWord)
    ELSE IF q.queryHasUnicode THEN ToLower(entryWord)
    ELSE ToLower(toVelthuis(entryWord))

\* The body of the loop over the entries of a PED volume: the DictEntry of
\* entry i, whose word is entryWord, if the word matches.
MatchPED(entry, entryWord, vol, i, q) ==
    IF entryWord # << >>
         /\ matchesQuery(WordToMatch(entryWord, q), q.matchQuery, q.startsWithOnly)
    THEN << [ Word |-> entryWord,
              Definition |-> formatDefinition(entry),
              Source |-> "PED",
              ID |-> EntryID(vol, i),
              WordNorm |-> normalizeWord(entryWord) ] >>
    ELSE << >>

RECURSIVE ScanPEDEntries(_, _, _, _)
\* The loop over the entries of PED volume vol from index i on
ScanPEDEntries(entries, vol, i, q) ==
    IF i >= Len(entries) THEN << >>
    ELSE MatchPED(entries[i + 1], extractWordFromPED(entries[i + 1]), vol, i, q)
         \o ScanPEDEntries(entries, vol, i + 1, q)

RECURSIVE ScanPEDVolumesStop(_, _, _, _)
\* The mutant of ScanPEDVolumes that gives up at the first volume that does
\* not load.
ScanPEDVolumesStop(c, vol, results, q) ==
    IF vol > PedLastVol THEN [results |-> results, cache |-> c]
    ELSE LET loaded == loadVolume(c, "ped", vol)
         IN  IF loaded.err THEN [results |-> results, cache |-> c]
             ELSE ScanPEDVolumesStop(loaded.cache, vol + 1,
                                     results \o ScanPEDEntries(loaded.entries, vol, 0, q), q)

RECURSIVE ScanPEDVolumes(_, _, _, _)
\* The loop over the PED volumes from vol on, results being the matches
\* so far; a volume that does not load is skipped.
ScanPEDVolumes(c, vol, results, q) ==
    IF vol > PedLastVol THEN [results |-> results, cache |-> c]
    ELSE LET loaded == loadVolume(c, "ped", vol)
         IN  IF loaded.err THEN ScanPEDVolumes(c, vol + 1, results, q)
             ELSE ScanPEDVolumes(loaded.cache, vol + 1,
                                 results \o ScanPEDEntries(loaded.entries, vol, 0, q), q)

\* The end of a lookup: the sorted results are stored under cacheKey and
\* returned.
StoreResults(c, cacheKey, results) ==
    [results |-> results, err |-> FALSE, cache |-> CacheSet(c, cacheKey, results)]

\* The lookup from the scan on: scan is what the loop over the volumes
\* left.
RankAndStore(scan, cacheKey, query, fuzzy) ==
    StoreResults(scan.cache, cacheKey, sortResultsByRelevance(scan.results, query, fuzzy))

\* The lookup from the cache probe on
ServePED(c, cacheKey, query, q) ==
    IF CacheHit(c, cacheKey)
    THEN [results |-> c[cacheKey].value, err |-> FALSE, cache |-> c]
    ELSE RankAndStore(ScanPEDVolumes(c, PedFirstVol, << >>, q), cacheKey, query, q.fuzzy)

\* The mutant of QueryKey that leaves startsWithOnly out of the key.
QueryKeyNoMode(src, q) == << src, q.matchQuery, q.fuzzy, FALSE >>

\* fmt.Sprintf("ped:%s:fuzzy=%v:sw=%v", matchQuery, fuzzy, startsWithOnly)
QueryKey(src, q) == << src, q.matchQuery, q.fuzzy, q.startsWithOnly >>

\* The lookup once the query is prepared
LookupPEDPrepared(c, query, q) == ServePED(c, QueryKey("ped", q), query, q)

\* LookupPEDWithOptions, run on the cache c: what it returns, and the cache
\* it leaves.
LookupPEDWithOptions(c, query, fuzzy, startsWithOnly) ==
    LookupPEDPrepared(c, query, Prepared(query, fuzzy, startsWithOnly))

\* LookupPED
LookupPED(c, query) == LookupPEDWithOptions(c, query, FALSE, FALSE)

MatchDPPN(entry, entryWord, vol, i, q) ==
    IF entryWord # << >>
         /\ matchesQuery(WordToMatch(entryWord, q), q.matchQuery, q.startsWithOnly)
    THEN << [ Word |-> entryWord,
              Definition |-> formatDPPNDefinition(entry),
              Source |-> "DPPN",
              ID |-> EntryID(vol, i),
              WordNorm |-> ToLower(entryWord) ] >>
    ELSE << >>

RECURSIVE ScanDPPNEntries(_, _, _, _)
ScanDPPNEntries(entries, vol, i, q) ==
    IF i >= Len(entries) THEN << >>
    ELSE MatchDPPN(entries[i + 1], extractWordFromDPPN(entries[i + 1]), vol, i, q)
         \o ScanDPPNEntries(entries, vol, i + 1, q)

RECURSIVE ScanDPPNVolumes(_, _, _, _)
ScanDPPNVolumes(c, vol, results, q) ==
    IF vol > DppnLastVol THEN [results |-> results, cache |-> c]
    ELSE LET loaded == loadVolume(c, "dppn", vol)
         IN  IF loaded.err THEN ScanDPPNVolumes(c, vol + 1, results, q)
             ELSE ScanDPPNVolumes(loaded.cache, vol + 1,
                                  results \o ScanDPPNEntries(loaded.entries, vol, 0, q), q)

ServeDPPN(c, cacheKey, query, q) ==
    IF CacheHit(c, cacheKey)
    THEN [results |-> c[cacheKey].value, err |-> FALSE, cache |-> c]
    ELSE RankAndStore(ScanDPPNVolumes(c, DppnFirstVol, << >>, q), cacheKey, query, q.fuzzy)

LookupDPPNPrepared(c, query, q) == ServeDPPN(c, QueryKey("dppn", q), query, q)

\* LookupDPPNWithOptions
LookupDPPNWithOptions(c, query, fuzzy, startsWithOnly) ==
    LookupDPPNPrepared(c, query, Prepared(query, fuzzy, startsWithOnly))

----------------------------------------------------------------------------
(* Stem generator *)

\* paliNounEndings: << ending, stems >>, the ending to strip and what to
\* append to get a stem, in table order.
paliNounEndings ==
    << << << "a", "t", "o" >>, << << "a", "n", "t" >>, << "a", "t" >>, << "a" >> >> >>,
       << << "a", "t" >> \o Rune.aa, << << "a", "n", "t" >>, << "a", "t" >>, << "a" >> >> >>,
       << << "a", "n", "t", "a" >> \o Rune.dm, << << "a", "n", "t" >>, << "a", "t" >>, << "a" >> >> >>,
       << << "a", "n", "t", "e" >>, << << "a", "n", "t" >>, << "a", "t" >>, << "a" >> >> >>,
       << << "a", "n", "t", "o" >>, << << "a", "n", "t" >>, << "a", "t" >>, << "a" >> >> >>,
       << << "a", "n", "t" >> \o Rune.aa \o << "n", "a" >> \o Rune.dm, << << "a", "n", "t" >>, << "a", "t" >>, << >> >> >>,
       << << "a", "n", "t", "e", "h", "i" >>, << << "a", "n", "t" >>, << "a", "t" >>, << >> >> >>,
       << << "a", "n", "t", "e", "s", "u" >>, << << "a", "n", "t" >>, << "a", "t" >>, << >> >> >>,
       << << "a", "s", "s", "a" >>, << << "a" >>, << >> >> >>,
       << Rune.aa \o << "y", "a" >>, << << "a" >>, Rune.aa >> >>,
       << << "a", "s", "m" >> \o Rune.aa, << << "a" >>, << >> >> >>,
       << << "a", "m", "h" >> \o Rune.aa, << << "a" >>, << >> >> >>,
       << << "a", "s", "m", "i" >> \o Rune.dm, << << "a" >>, << >> >> >>,
       << << "a", "m", "h", "i" >>, << << "a" >>, << >> >> >>,
       << Rune.aa \o << "n", "a" >> \o Rune.dm, << << "a" >>, Rune.aa >> >>,
       << << "e", "h", "i" >>, << << "a" >>, << >> >> >>,
       << << "e", "b", "h", "i" >>, << << "a" >>, << >> >> >>,
       << << "e", "s", "u" >>, << << "a" >>, << >> >> >>,
       << << "e", "n", "a" >>, << << "a" >>, << >> >> >>,
       << << "a" >> \o Rune.dm, << << "a" >>, << >> >> >>,
       << Rune.aa \o << "n", "i" >>, << << "a" >>, << "a" >> \o Rune.dm >> >>,
       << Rune.aa, << << "a" >>, << >> >> >>,
       << << "e" >>, << << "a" >>, << "i" >> >> >>,
       << << "o" >>, << << "a" >>, << >> >> >>,
       << << "i", "n", "o" >>, << << "i" >>, << "i", "n" >> >> >>,
       << << "i", "n", "a" >> \o Rune.dm, << << "i" >>, << "i", "n" >> >> >>,
       << << "i", "n" >> \o Rune.aa, << << "i" >>, << "i", "n" >> >> >>,
       << Rune.ii \o << "n", "a" >> \o Rune.dm, << << "i" >>, << "i", "n" >> >> >>,
       << Rune.ii \o << "h", "i" >>, << << "i" >>, << "i", "n" >> >> >>,
       << Rune.ii \o << "s", "u" >>, << << "i" >>, << "i", "n" >> >> >>,
       << << "i", "s", "m", "i" >> \o Rune.dm, << << "i" >>, << >> >> >>,
       << << "i", "m", "h", "i" >>, << << "i" >>, << >> >> >>,
       << Rune.ii, << << "i" >>, << "i", "n" >> >> >>,
       << << "u", "n", "o" >>, << << "u" >>, << >> >> >>,
       << << "u", "n", "a" >> \o Rune.dm, << << "u" >>, << >> >> >>,
       << << "u", "n" >> \o Rune.aa, << << "u" >>, << >> >> >>,
       << Rune.uu \o << "n", "a" >> \o Rune.dm, << << "u" >>, << >> >> >>,
       << Rune.uu \o << "h", "i" >>, << << "u" >>, << >> >> >>,
       << Rune.uu \o << "s", "u" >>, << << "u" >>, << >> >> >>,
       << << "u", "s", "m", "i" >> \o Rune.dm, << << "u" >>, << >> >> >>,
       << << "u", "m", "h", "i" >>, << << "u" >>, << >> >> >> >>

\* the stem must be at least 2 chars: len(stem) >= 2, in bytes
StemLongEnough(stem) == Len(stem) >= 2

\* The mutant of AppendNew that appends without looking for a duplicate.
RECURSIVE AppendAll(_, _, _)
AppendAll(cands, stem, adds) ==
    IF adds = << >> THEN cands
    ELSE AppendAll(Append(cands, stem \o Head(adds)), stem, Tail(adds))

RECURSIVE AppendNew(_, _, _)
\* The loop over ending.stems: stem + add is appended unless it is among
\* the candidates already.
AppendNew(cands, stem, adds) ==
    IF adds = << >> THEN cands
    ELSE LET candidate == stem \o Head(adds)
             found == \E i \in 1..Len(cands) : cands[i] = candidate
         IN  AppendNew(IF found THEN cands ELSE Append(cands, candidate),
                       stem, Tail(adds))

RECURSIVE StripEndings(_, _, _)
\* The loop over paliNounEndings from row k on.
StripEndings(cands, word, k) ==
    IF k > Len(paliNounEndings) THEN cands
    ELSE LET ending == paliNounEndings[k]
             stem == TrimSuffix(word, ending[1])
         IN  StripEndings(
                 IF HasSuffix(word, ending[1]) /\ StemLongEnough(stem)
                 THEN AppendNew(cands, stem, ending[2])
                 ELSE cands,
                 word, k + 1)

\* getStemCandidates: the possible dictionary forms of an inflected word.
getStemCandidates(word) ==
    LET w == ToLower(word) IN StripEndings(<< w >>, w, 1)

----------------------------------------------------------------------------
(* State after construction, and the inputs the operations are called on *)

\* The strings of at most n letters drawn from the runes ls.
StringsOver(ls, n) == { Flatten(f) : f \in UNION { [1..k -> ls] : k \in 0..n } }

NoFiles == [src \in {"ped", "dppn"} |-> << >>]

\* NewDictionaryParser over cache.New: nothing cached, nothing called yet.
Constructed ==
    /\ op = "none"
    /\ ret = << >>
    /\ calls = 0
    /\ cache = << >>
    /\ now = 0
    /\ stack = << >>

----------------------------------------------------------------------------
(* The fuzzy fold applied to a word, and again to its own output *)

MaxFuzzyLen == 3

FuzzyLetters == { << "a" >>, << "k" >>, << "h" >>, << "n" >>, Rune.aa, << "A" >> }

InitFuzzy ==
    /\ Constructed
    /\ arg \in StringsOver(FuzzyLetters, MaxFuzzyLen)
    /\ files = NoFiles
    /\ readable = {}

\* w := toFuzzy(arg)
FuzzyFold ==
    /\ op = "none"
    /\ op' = "toFuzzy"
    /\ ret' = toFuzzy(arg)
    /\ UNCHANGED <<arg, calls, files, readable, cache, now, stack>>

\* toFuzzy(w), on the output of the call before
FuzzyFoldAgain ==
    /\ op = "toFuzzy"
    /\ op' = "toFuzzy2"
    /\ arg' = ret
    /\ ret' = toFuzzy(ret)
    /\ UNCHANGED <<calls, files, readable, cache, now, stack>>

NextFuzzy == FuzzyFold \/ FuzzyFoldAgain

SpecFuzzy == InitFuzzy /\ [][NextFuzzy]_vars

\* C2: the fuzzy fold is idempotent: folding the output of a fold returns
\* that output unchanged, toFuzzy(toFuzzy(x)) = toFuzzy(x).
C2_FuzzyIdempotent == op = "toFuzzy2" => ret = arg

----------------------------------------------------------------------------
(* The stem generator applied to a word *)

MaxStemPrefix == 2

StemLetters == { << "a" >>, << "m" >>, << "D" >>, Rune.aa }


\* Words of the tests and of the comments of the ending table, and words
\* around them.
Pali ==
    [ arahato |-> << "a", "r", "a", "h", "a", "t", "o" >>,
      dhammassa |-> << "d", "h", "a", "m", "m", "a", "s", "s", "a" >>,
      dhamma |-> << "d", "h", "a", "m", "m", "a" >>,
      cakka |-> << "c", "a", "k", "k", "a" >>,
      dhammacakka |-> << "d", "h", "a", "m", "m", "a", "c", "a", "k", "k", "a" >>,
      da |-> << "d", "a" >>,
      asha |-> Rune.aa \o Rune.qs \o << "a" >> ]

StemInputs ==
    { p \o paliNounEndings[k][1] :
        p \in StringsOver(StemLetters, MaxStemPrefix), k \in 1..Len(paliNounEndings) }
    \cup StringsOver(StemLetters, MaxStemPrefix)
    \cup { Pali.arahato, Pali.dhammassa }

InitStem ==
    /\ Constructed
    /\ arg \in StemInputs
    /\ files = NoFiles
    /\ readable = {}

\* candidates := getStemCandidates(arg)
StemCandidates ==
    /\ op = "none"
    /\ op' = "getStemCandidates"
    /\ ret' = getStemCandidates(arg)
    /\ UNCHANGED <<arg, calls, files, readable, cache, now, stack>>

NextStem == StemCandidates

SpecStem == InitStem /\ [][NextStem]_vars

\* C3: the first stem candidate is the word unchanged, whatever its letter
\* case: getStemCandidates(word)[0] = word.
C3_FirstIsWord == op = "getStemCandidates" => ret[1] = arg

\* The hypotheses of a word w: the pairs << row, extension >> of the suffix
\* table whose ending w ends with, the stem left being long enough.
Hypotheses(w) ==
    { h \in (1..Len(paliNounEndings)) \X (1..3) :
        /\ h[2] <= Len(paliNounEndings[h[1]][2])
        /\ HasSuffix(w, paliNounEndings[h[1]][1])
        /\ Len(w) - Len(paliNounEndings[h[1]][1]) >= 2 }

\* stem + extension of a hypothesis
Hypothesis(w, h) ==
    SubSeq(w, 1, Len(w) - Len(paliNounEndings[h[1]][1])) \o paliNounEndings[h[1]][2][h[2]]

\* h comes before g when the table is walked top to bottom
Earlier(h, g) == h[1] < g[1] \/ (h[1] = g[1] /\ h[2] < g[2])

\* c is generated first by a hypothesis that comes before every hypothesis
\* generating d
GeneratedBefore(w, c, d) ==
    \E h \in Hypotheses(w) :
        /\ Hypothesis(w, h) = c
        /\ \A g \in Hypotheses(w) : Hypothesis(w, g) = d => Earlier(h, g)

\* C4: for every row of the suffix table whose ending the (lower-cased)
\* word ends with, the stem being long enough, each stem + extension of the
\* row is among the candidates exactly once; the candidates after the word
\* itself stand in the order in which walking the table top to bottom
\* generates them first; "arahato" yields "arahant", "arahat" and "araha",
\* and "dhammassa" yields "dhamma".
C4_StemHypotheses ==
    op = "getStemCandidates" =>
        LET w == ToLower(arg)
            Has(c) == \E i \in 1..Len(ret) : ret[i] = c
        IN  /\ \A h \in Hypotheses(w) :
                   Cardinality({ i \in 1..Len(ret) : ret[i] = Hypothesis(w, h) }) = 1
            /\ \A i \in 2..Len(ret) : \A j \in 2..Len(ret) :
                   i < j => GeneratedBefore(w, ret[i], ret[j])
            /\ arg = Pali.arahato =>
                   /\ Has(<< "a", "r", "a", "h", "a", "n", "t" >>)
                   /\ Has(<< "a", "r", "a", "h", "a", "t" >>)
                   /\ Has(<< "a", "r", "a", "h", "a" >>)
            /\ arg = Pali.dhammassa => Has(Pali.dhamma)

\* "arahato" has been stemmed: the rows "ato" and "o" both apply, and
\* "arahat" is generated by both.
C4_Witness ==
    /\ op = "getStemCandidates"
    /\ arg = Pali.arahato
    /\ Cardinality(Hypotheses(arg)) = 5
    /\ Len(ret) = 5

----------------------------------------------------------------------------
(* The ranking applied to a result list *)

MaxSortLen == 3


\* Head words around the query "da": the word, its long-vowel and capital
\* spellings, words it begins, a word that contains it, a word without it.
SortWords == << Pali.da, << "d" >> \o Rune.aa, << "D", "a" >>, << "d", "a", "b" >>, << "a", "d", "a" >>, << "b" >> >>

SortQueries == { Pali.da, << "d" >> \o Rune.aa, << "D", "a" >> }

\* The entry a lookup of source src builds for head word k: WordNorm is
\* normalizeWord(word) in the PED and strings.ToLower(word) in the DPPN.
SortEntry(k, src) ==
    [ Word |-> SortWords[k],
      WordNorm |-> IF src = "PED" THEN normalizeWord(SortWords[k]) ELSE ToLower(SortWords[k]),
      Source |-> src,
      ID |-> << 0, k - 1 >> ]

\* The result lists: at most MaxSortLen entries of one source, each head
\* word at most once.
SortLists ==
    UNION { { [i \in 1..n |-> SortEntry(f[i], src)] :
                f \in { g \in [1..n -> 1..Len(SortWords)] :
                          \A i \in 1..n : \A j \in 1..n : g[i] = g[j] => i = j },
                src \in { "PED", "DPPN" } } :
            n \in 0..MaxSortLen }

InitSort ==
    /\ Constructed
    /\ arg \in [results : SortLists, query : SortQueries, fuzzy : BOOLEAN]
    /\ files = NoFiles
    /\ readable = {}

\* sortResultsByRelevance(arg.results, arg.query, arg.fuzzy)
SortResults ==
    /\ op = "none"
    /\ op' = "sortResultsByRelevance"
    /\ ret' \in SortOutcomes(arg.results, arg.query, arg.fuzzy)
    /\ UNCHANGED <<arg, calls, files, readable, cache, now, stack>>

NextSort == SortResults

SpecSort == InitSort /\ [][NextSort]_vars

\* C5: after sortResultsByRelevance every entry whose normalized form
\* equals the normalized query stands before every entry whose form does
\* not; among the others every entry whose form begins with the normalized
\* query stands before every entry whose form does not; within one class
\* the forms ascend; and the output is a rearrangement of the input.
C5_SortedByRelevance ==
    op = "sortResultsByRelevance" =>
        LET qn == QueryNorm(arg.query, arg.fuzzy)
            Norm(k) == EntryNorm(ret[k], arg.fuzzy)
            Exact(k) == Norm(k) = qn
            Prefix(k) == HasPrefix(Norm(k), qn)
        IN  /\ \A i \in 1..Len(ret) : \A j \in 1..Len(ret) :
                   i < j =>
                     /\ Exact(j) => Exact(i)
                     /\ (~Exact(i) /\ ~Exact(j) /\ Prefix(j)) => Prefix(i)
                     /\ (Exact(i) = Exact(j) /\ Prefix(i) = Prefix(j))
                          => ~StrLess(Norm(j), Norm(i))
            /\ Len(ret) = Len(arg.results)
            /\ \A e \in { ret[k] : k \in 1..Len(ret) } \cup { arg.results[k] : k \in 1..Len(ret) } :
                   Cardinality({ k \in 1..Len(ret) : ret[k] = e })
                     = Cardinality({ k \in 1..Len(ret) : arg.results[k] = e })

\* A list holding an exact match, a prefix match and a mere substring
\* match, handed over in the opposite order, has been sorted.
C5_Witness ==
    /\ op = "sortResultsByRelevance"
    /\ ~arg.fuzzy
    /\ Len(ret) = 3
    /\ ret # arg.results
    /\ EntryNorm(ret[1], FALSE) = QueryNorm(arg.query, FALSE)
    /\ EntryNorm(ret[2], FALSE) # QueryNorm(arg.query, FALSE)
    /\ HasPrefix(EntryNorm(ret[2], FALSE), QueryNorm(arg.query, FALSE))
    /\ ~HasPrefix(EntryNorm(ret[3], FALSE), QueryNorm(arg.query, FALSE))

----------------------------------------------------------------------------
(* Lookups on a parser whose volume files come and go while time passes *)

MaxCalls == 2
MaxTime == 2

\* <b>word</b> x, and [b]word[/b] x
PedEntry(word) == << "<", "b", ">" >> \o word \o << "<", "/", "b", ">", " ", "x" >>
DppnEntry(word) == << "[", "b", "]" >> \o word \o << "[", "/", "b", "]", " ", "x" >>

\* Two PED volumes and one DPPN volume around the head word "da"; the
\* files of the other volumes do not exist.
LookupFiles ==
    [ ped |-> (0 :> << PedEntry(<< "d" >> \o Rune.aa), PedEntry(Pali.da), << "x" >> >>)
              @@ (1 :> << PedEntry(<< "a", "d", "a" >>), PedEntry(<< "D", "a", "b" >>) >>),
      dppn |-> (1 :> << DppnEntry(<< "a", "d", "a" >>), DppnEntry(<< "D" >> \o Rune.aa) >>) ]

LookupVolumes == { << "ped", 0 >>, << "ped", 1 >>, << "dppn", 1 >> }

LookupQueries == { Pali.da, << "d" >> \o Rune.aa }

InitLookup ==
    /\ Constructed
    /\ arg = << >>
    /\ files = LookupFiles
    /\ readable = LookupVolumes

\* The return of a call of name on a: r is what it returns and the cache it
\* leaves.
Return(name, a, r) ==
    /\ op' = name
    /\ arg' = a
    /\ ret' = [results |-> r.results, err |-> r.err]
    /\ cache' = r.cache
    /\ calls' = calls + 1
    /\ UNCHANGED <<files, readable, now, stack>>

\* A call of LookupPEDWithOptions
CallLookupPED(query, fuzzy, startsWithOnly) ==
    /\ calls < MaxCalls
    /\ Return("LookupPEDWithOptions",
              [query |-> query, fuzzy |-> fuzzy, startsWithOnly |-> startsWithOnly],
              LookupPEDWithOptions(cache, query, fuzzy, startsWithOnly))

\* A call of LookupDPPNWithOptions
CallLookupDPPN(query, fuzzy, startsWithOnly) ==
    /\ calls < MaxCalls
    /\ Return("LookupDPPNWithOptions",
              [query |-> query, fuzzy |-> fuzzy, startsWithOnly |-> startsWithOnly],
              LookupDPPNWithOptions(cache, query, fuzzy, startsWithOnly))

\* A volume file becomes unreadable or unparsable (before a call that is
\* still to come: nothing observes the files after the last call)
VolumeFails(v) ==
    /\ calls < MaxCalls
    /\ v \in readable
    /\ readable' = readable \ { v }
    /\ UNCHANGED <<op, arg, ret, calls, files, cache, now, stack>>

\* A volume file is back as it was
VolumeRestored(v) ==
    /\ calls < MaxCalls
    /\ v \in LookupVolumes \ readable
    /\ readable' = readable \cup { v }
    /\ UNCHANGED <<op, arg, ret, calls, files, cache, now, stack>>

\* Time passes
Tick ==
    /\ calls < MaxCalls
    /\ now < MaxTime
    /\ now' = now + 1
    /\ UNCHANGED <<op, arg, ret, calls, files, readable, cache, stack>>

NextLookup ==
    \/ \E query \in LookupQueries, fuzzy \in BOOLEAN, sw \in BOOLEAN :
          CallLookupPED(query, fuzzy, sw)
    \/ \E query \in LookupQueries, fuzzy \in BOOLEAN, sw \in BOOLEAN :
          CallLookupDPPN(query, fuzzy, sw)
    \/ \E v \in LookupVolumes : VolumeFails(v)
    \/ \E v \in LookupVolumes : VolumeRestored(v)
    \/ Tick

SpecLookup == InitLookup /\ [][NextLookup]_vars

\* C6: in the list a lookup returns, an entry whose head word equals the
\* query under the normalization the matching used stands before every
\* entry that matched only as a prefix or substring.
C6_ExactFirst ==
    op \in { "LookupPEDWithOptions", "LookupDPPNWithOptions" } =>
        LET q == Prepared(arg.query, arg.fuzzy, arg.startsWithOnly)
            Exact(k) == WordToMatch(ret.results[k].Word, q) = q.matchQuery
        IN  \A i \in 1..Len(ret.results) : \A j \in 1..Len(ret.results) :
                (i < j /\ Exact(j)) => Exact(i)

\* The volume vol of src loads: it is held unexpired by the cache, or its
\* file is readable.
Loads(src, vol) == CacheHit(cache, << src, "vol", vol >>) \/ << src, vol >> \in readable

\* The head word of a raw entry of src
HeadWord(src, entry) ==
    IF src = "ped" THEN extractWordFromPED(entry) ELSE extractWordFromDPPN(entry)

\* The head word word is one that the query q matches
Matches(word, q) ==
    word # << >> /\ matchesQuery(WordToMatch(word, q), q.matchQuery, q.startsWithOnly)

\* The IDs of the entries that match q in the volumes of src that load
MatchingIDs(src, q) ==
    { EntryID(p[1], p[2] - 1) :
        p \in { pp \in (DOMAIN files[src]) \X (1..3) :
                   /\ Loads(src, pp[1])
                   /\ pp[2] <= Len(files[src][pp[1]])
                   /\ Matches(HeadWord(src, files[src][pp[1]][pp[2]]), q) } }

\* The list results holds one entry for each of ids, and no other
OneEach(results, ids) ==
    /\ { results[k].ID : k \in 1..Len(results) } = ids
    /\ Len(results) = Cardinality(ids)

\* The query of the call that returns in the next state
NextQuery == Prepared(arg'.query, arg'.fuzzy, arg'.startsWithOnly)

\* The next state is the return of a lookup in src
Returns(src) ==
    /\ calls' = calls + 1
    /\ op' = (IF src = "ped" THEN "LookupPEDWithOptions" ELSE "LookupDPPNWithOptions")

\* C10: whichever volume files are unreadable, a lookup returns without
\* error, and a lookup that scans the volumes (its result is not served
\* from the query cache) returns exactly the matching entries of the
\* volumes that load, one result for each.
C10_LoadedVolumesScanned ==
    [][ \A src \in { "ped", "dppn" } :
          Returns(src) =>
            /\ ret'.err = FALSE
            /\ ~CacheHit(cache, QueryKey(src, NextQuery)) =>
                 OneEach(ret'.results, MatchingIDs(src, NextQuery)) ]_vars

\* A PED lookup has returned entries of volume 1 although volume 0 has
\* never loaded and is unreadable.
C10_Witness ==
    /\ op = "LookupPEDWithOptions"
    /\ << "ped", 0 >> \notin readable
    /\ << "ped", "vol", 0 >> \notin DOMAIN cache
    /\ ret.results # << >>
    /\ ret.results[1].ID[1] = "1"

----------------------------------------------------------------------------
(* Compound analysis *)

\* strings.EqualFold, on the letters of the model
EqualFold(s, t) == MapLower(Runes(s)) = MapLower(Runes(t))

\* wordPart
Part(original, base) == [original |-> original, base |-> base]

\* paliParticles, a Go map: the order in which a range loop visits it is
\* not fixed.
paliParticles ==
    { [suffix |-> << "c", "a" >>, base |-> << "c", "a" >>],
      [suffix |-> << "p", "i" >>, base |-> << "p", "i" >>],
      [suffix |-> << "e", "v", "a" >>, base |-> << "e", "v", "a" >>],
      [suffix |-> << "k", "h", "o" >>, base |-> << "k", "h", "o" >>],
      [suffix |-> << "p", "a", "n", "a" >>, base |-> << "p", "a", "n", "a" >>],
      [suffix |-> << "h", "i" >>, base |-> << "h", "i" >>],
      [suffix |-> << "t", "u" >>, base |-> << "t", "u" >>],
      [suffix |-> << "v", "a" >>, base |-> << "v" >> \o Rune.aa],
      [suffix |-> << "t", "i" >>, base |-> << "t", "i" >>],
      [suffix |-> << "c", "e" >>, base |-> << "c", "e" >>],
      [suffix |-> << "v", "e" >>, base |-> << "v", "e" >>],
      [suffix |-> << "n", "u" >>, base |-> << "n", "u" >>],
      [suffix |-> << "s", "u" >>, base |-> << "s", "u" >>] }

\* The mutant of StripBy that tries the plain suffix before the liaison
\* patterns.
StripByPlainFirst(remaining, p) ==
    IF HasSuffix(remaining, p.suffix) /\ Len(remaining) > Len(p.suffix) + 2
    THEN [found |-> TRUE, remaining |-> TrimSuffix(remaining, p.suffix)]
    ELSE IF HasSuffix(remaining, Rune.tn \o p.suffix)
    THEN [found |-> TRUE, remaining |-> TrimSuffix(remaining, Rune.tn \o p.suffix) \o Rune.dm]
    ELSE [found |-> FALSE, remaining |-> remaining]

\* The body of the loop over paliParticles for the particle p: the three
\* liaison patterns in the order the code tries them.
StripBy(remaining, p) ==
    IF HasSuffix(remaining, Rune.tn \o p.suffix)
    THEN [found |-> TRUE, remaining |-> TrimSuffix(remaining, Rune.tn \o p.suffix) \o Rune.dm]
    ELSE IF HasSuffix(remaining, << p.suffix[1] >> \o p.suffix)
              /\ p.suffix[1] \notin { "a", "i", "u" }
    THEN [found |-> TRUE, remaining |-> TrimSuffix(remaining, << p.suffix[1] >> \o p.suffix)]
    ELSE IF HasSuffix(remaining, p.suffix) /\ Len(remaining) > Len(p.suffix) + 2
    THEN [found |-> TRUE, remaining |-> TrimSuffix(remaining, p.suffix)]
    ELSE [found |-> FALSE, remaining |-> remaining]

\* The particles of ps, as trailing particles with what they leave of word
StripsBy(word, ps) ==
    { [remaining |-> StripBy(word, p).remaining,
       trailingParticles |-> << Part(p.suffix, p.base) >>] : p \in ps }

\* What the loop over paliParticles can leave of the lower-cased word: it
\* stops at the first particle it visits that one of the patterns fits, and
\* any of them can be the first.
Strips(word) ==
    IF \A p \in paliParticles : ~StripBy(word, p).found
    THEN { [remaining |-> word, trailingParticles |-> << >>] }
    ELSE StripsBy(word, { p \in paliParticles : StripBy(word, p).found })

\* vowels, longVowels and consonants, as runes
Vowels == { << "a" >>, Rune.aa, << "i" >>, Rune.ii, << "u" >>, Rune.uu, << "e" >>, << "o" >> }

LongVowels == { Rune.aa, Rune.ii, Rune.uu }

ShortVowel(r) == IF r = Rune.aa THEN << "a" >> ELSE IF r = Rune.ii THEN << "i" >> ELSE << "u" >>

Consonants ==
    { << "k" >>, << "g" >>, << "c" >>, << "j" >>, Rune.dt, Rune.dd, << "t" >>, << "d" >>,
      << "p" >>, << "b" >>, << "m" >>, << "n" >>, << "y" >>, << "r" >>, << "l" >>,
      << "v" >>, << "s" >>, << "h" >> }

\* isValidSplitPoint once runes is []rune(word): the byte offset i indexes
\* the runes.
ValidIn(runes, i) ==
    /\ i < Len(runes)
    /\ (runes[i] \in Vowels \/ runes[i + 1] \in Vowels)

isValidSplitPoint(word, i) ==
    /\ ~(i <= 0 \/ i >= Len(word))
    /\ ValidIn(Runes(word), i)

\* sandhiCandidate
Candidate(first, firstBase, second, secondBase) ==
    [first |-> Part(first, firstBase), second |-> Part(second, secondBase)]

\* string(firstRunes[:len(firstRunes)-1])
AllButLast(runes) == Flatten(SubSeq(runes, 1, Len(runes) - 1))

\* The candidates of generateSandhiCandidates once firstRunes, lastChar and
\* firstChar are taken.
SandhiFrom(first, second, firstRunes, lastChar, firstChar) ==
    << Candidate(first, first, second, second) >>
    \o (IF lastChar \in LongVowels
        THEN << Candidate(first, AllButLast(firstRunes) \o ShortVowel(lastChar), second, second),
                Candidate(first, first, second, lastChar \o second) >>
        ELSE << >>)
    \o (IF lastChar = << "o" >>
        THEN << Candidate(first, AllButLast(firstRunes) \o << "a" >>, second, second) >>
        ELSE << >>)
    \o (IF firstChar \in Consonants /\ lastChar = firstChar
        THEN << Candidate(first, AllButLast(firstRunes), second, second) >>
        ELSE << >>)

SandhiOf(first, second, firstRunes, secondRunes) ==
    SandhiFrom(first, second, firstRunes, firstRunes[Len(firstRunes)], secondRunes[1])

generateSandhiCandidates(first, second) ==
    IF Len(first) > 0 /\ Len(second) > 0
    THEN SandhiOf(first, second, Runes(first), Runes(second))
    ELSE << Candidate(first, first, second, second) >>

RECURSIVE SplitCandidates(_, _)
\* The candidates that the loop of findCompoundBreaks scores from the
\* offset i on, in the order it scores them.
SplitCandidates(word, i) ==
    IF ~(i < Len(word) - 1) THEN << >>
    ELSE (IF isValidSplitPoint(word, i)
          THEN generateSandhiCandidates(SubSeq(word, 1, i), SubSeq(word, i + 1, Len(word)))
          ELSE << >>)
         \o SplitCandidates(word, i + 1)

\* score += 10
Points(r) == IF Len(r.results) > 0 THEN 10 ELSE 0

RECURSIVE ScoreCandidates(_, _, _, _, _)

\* if score > bestScore
KeepBest(c, cands, k, bestSplit, bestScore, score) ==
    IF score > bestScore
    THEN ScoreCandidates(c, cands, k + 1, << cands[k].first, cands[k].second >>, score)
    ELSE ScoreCandidates(c, cands, k + 1, bestSplit, bestScore)

ScoreSecond(cands, k, bestSplit, bestScore, firstPoints, secondResults) ==
    KeepBest(secondResults.cache, cands, k, bestSplit, bestScore,
             firstPoints + Points(secondResults))

ScoreFirst(cands, k, bestSplit, bestScore, firstResults) ==
    ScoreSecond(cands, k, bestSplit, bestScore, Points(firstResults),
                LookupPED(firstResults.cache, cands[k].second.base))

\* The scoring loop of findCompoundBreaks from candidate k on, run on the
\* cache c: the best split, its score, and the cache the lookups leave.
ScoreCandidates(c, cands, k, bestSplit, bestScore) ==
    IF k > Len(cands) THEN [bestSplit |-> bestSplit, bestScore |-> bestScore, cache |-> c]
    ELSE ScoreFirst(cands, k, bestSplit, bestScore, LookupPED(c, cands[k].first.base))

RECURSIVE KeepClose(_, _)
\* The filter of the stemming stage: the results whose word is the stem
\* under EqualFold, with or without its diacritics.
KeepClose(results, stem) ==
    IF results = << >> THEN << >>
    ELSE (IF EqualFold(Head(results).Word, stem)
               \/ EqualFold(normalizeWord(Head(results).Word), normalizeWord(stem))
          THEN << Head(results) >> ELSE << >>)
         \o KeepClose(Tail(results), stem)

RECURSIVE TryStems(_, _, _)

TryNext(c, stems, k, close) ==
    IF Len(close) > 0 THEN [results |-> close, cache |-> c] ELSE TryStems(c, stems, k + 1)

TryStem(stems, k, stemResults) ==
    TryNext(stemResults.cache, stems, k, KeepClose(stemResults.results, stems[k]))

\* The stemming stage of AnalyzeCompound from candidate k on, run on the
\* cache c: the results it returns with (none if no stem has any), and the
\* cache the lookups leave.
TryStems(c, stems, k) ==
    IF k > Len(stems) THEN [results |-> << >>, cache |-> c]
    ELSE TryStem(stems, k, LookupPEDWithOptions(c, stems[k], FALSE, TRUE))

RECURSIVE LookupParts(_, _, _, _)

AddPart(parts, k, breakdown, r) ==
    LookupParts(r.cache, parts, k + 1,
                Append(breakdown, [ Word |-> parts[k].original,
                                    Base |-> parts[k].base,
                                    Results |-> r.results ]))

RetryOriginal(parts, k, breakdown, r) ==
    IF Len(r.results) = 0 /\ parts[k].base # parts[k].original
    THEN AddPart(parts, k, breakdown, LookupPED(r.cache, parts[k].original))
    ELSE AddPart(parts, k, breakdown, r)

\* The loop of AnalyzeCompound over the parts from part k on, run on the
\* cache c: the breakdown, and the cache the lookups leave.
LookupParts(c, parts, k, breakdown) ==
    IF k > Len(parts) THEN [breakdown |-> breakdown, cache |-> c]
    ELSE RetryOriginal(parts, k, breakdown, LookupPED(c, parts[k].base))

\* models.DictLookupResponse, with the error AnalyzeCompound returns
Response(word, results, isCompound, breakdown) ==
    [ Query |-> word, Results |-> results, IsCompound |-> isCompound,
      Breakdown |-> breakdown, err |-> FALSE ]

\* The mutant of Verdict that leaves IsCompound set.
VerdictKept(word, breakdown) == Response(word, << >>, TRUE, breakdown)

\* The end of AnalyzeCompound: the response is a compound unless no part
\* of the breakdown has a result.
Verdict(word, breakdown) ==
    IF /\ \E k \in 1..Len(breakdown) : Len(breakdown[k].Results) = 0
       /\ Len(breakdown) > 0
       /\ ~\E k \in 1..Len(breakdown) : Len(breakdown[k].Results) > 0
    THEN Response(word, << >>, FALSE, << >>)
    ELSE Response(word, << >>, TRUE, breakdown)

----------------------------------------------------------------------------
(* AnalyzeCompound, call by call of findCompoundBreaks *)

MaxAnalyses == 1
MaxDepth == 3


\* Dictionaries of one PED volume.
AnalyzeDicts ==
    { [ped |-> (0 :> << PedEntry(Pali.dhamma), PedEntry(Pali.cakka) >>), dppn |-> << >>],
      [ped |-> (0 :> << PedEntry(<< "d", "h", "a", "m", "m" >> \o Rune.aa), PedEntry(Pali.dhamma) >>),
       dppn |-> << >>],
      [ped |-> (0 :> << PedEntry(Pali.asha) >>), dppn |-> << >>] }

AnalyzeWords ==
    { Pali.dhamma, Pali.dhammassa, Pali.dhammacakka,
      Pali.cakka \o Rune.tn \o << "c", "a" >>,
      Pali.asha \o << "c", "a" >>,
      << "d", "h", "a", "m", "m", "e", "v", "a" >>,
      << "D", "h", "a", "m", "m", "o" >>,
      << >>, << " " >>,
      << "D", "h", "a", "m", "m", "a" >> \o Rune.tn \o << "c", "a" >>,
      Rune.dt \o Rune.dt \o << "a", "k", "a" >>,
      << "t", "e", "e", "v", "a" >> }

InitAnalyze ==
    /\ Constructed
    /\ arg = << >>
    /\ files \in AnalyzeDicts
    /\ readable \in SUBSET { << "ped", 0 >> }

\* A frame of the call stack
Frame(fn, word, state, bestSplit, result, trailingParticles) ==
    [ fn |-> fn, word |-> word, state |-> state, bestSplit |-> bestSplit,
      result |-> result, trailingParticles |-> trailingParticles ]

\* AnalyzeCompound returns response, the lookups having left the cache c.
Respond(c, response) ==
    /\ op' = "AnalyzeCompound"
    /\ ret' = response
    /\ cache' = c
    /\ calls' = calls + 1
    /\ stack' = << >>
    /\ UNCHANGED <<files, readable, now>>

\* AnalyzeCompound after the stemming stage: it returns the stemmed
\* results, or breakDownWord strips a particle and calls
\* findCompoundBreaks.
AfterStems(word, stemmed) ==
    IF Len(stemmed.results) > 0
    THEN Respond(stemmed.cache, Response(word, stemmed.results, FALSE, << >>))
    ELSE /\ \E s \in Strips(ToLower(word)) :
              stack' = << Frame("breakDownWord", ToLower(word), "waiting", << >>, << >>,
                                s.trailingParticles),
                          Frame("findCompoundBreaks", s.remaining, "called", << >>, << >>,
                                << >>) >>
         /\ op' = "breakDownWord"
         /\ cache' = stemmed.cache
         /\ UNCHANGED <<ret, calls, files, readable, now>>

\* AnalyzeCompound after the direct lookup
AfterDirect(word, directResults) ==
    IF Len(directResults.results) > 0
    THEN Respond(directResults.cache, Response(word, directResults.results, FALSE, << >>))
    ELSE AfterStems(word, TryStems(directResults.cache, getStemCandidates(word), 2))

\* A call of AnalyzeCompound, up to its return or to the first call of
\* findCompoundBreaks
CallAnalyzeCompound(word) ==
    /\ calls < MaxAnalyses
    /\ stack = << >>
    /\ IF op = "DictionaryHandler.Lookup" THEN word = arg.word /\ arg' = arg
       ELSE arg' = [word |-> word]
    /\ AfterDirect(word, LookupPED(cache, word))

\* findCompoundBreaks after the scoring loop: it calls itself on the base
\* of the second part of a split that scored, or returns the best split.
AfterScoring(best) ==
    /\ cache' = best.cache
    /\ IF best.bestScore > 0 /\ Len(best.bestSplit) = 2
       THEN /\ Len(stack) - 1 < MaxDepth
            /\ stack' = [stack EXCEPT ![Len(stack)].state = "waiting",
                                      ![Len(stack)].bestSplit = best.bestSplit]
                        \o << Frame("findCompoundBreaks", best.bestSplit[2].base, "called",
                                    << >>, << >>, << >>) >>
       ELSE stack' = [stack EXCEPT ![Len(stack)].state = "returned",
                                   ![Len(stack)].result = best.bestSplit]

\* The body of a call of findCompoundBreaks on word, up to its return or to
\* the call of itself
BreaksOf(word) ==
    IF Len(word) < 4
    THEN /\ stack' = [stack EXCEPT ![Len(stack)].state = "returned",
                                   ![Len(stack)].result = << Part(word, word) >>]
         /\ UNCHANGED cache
    ELSE AfterScoring(ScoreCandidates(cache, SplitCandidates(word, 2), 1,
                                      << Part(word, word) >>, 0))

EnterBreaks ==
    /\ stack # << >>
    /\ stack[Len(stack)].fn = "findCompoundBreaks"
    /\ stack[Len(stack)].state = "called"
    /\ BreaksOf(stack[Len(stack)].word)
    /\ UNCHANGED <<op, arg, ret, calls, files, readable, now>>

\* What findCompoundBreaks returns once the call of itself has returned
\* secondBreaks
Joined(bestSplit, secondBreaks) ==
    IF Len(secondBreaks) > 1 THEN << bestSplit[1] >> \o secondBreaks ELSE bestSplit

\* A call of findCompoundBreaks returns to the call of findCompoundBreaks
\* that made it
ReturnBreaks ==
    /\ Len(stack) >= 2
    /\ stack[Len(stack)].state = "returned"
    /\ stack[Len(stack) - 1].fn = "findCompoundBreaks"
    /\ stack' = [SubSeq(stack, 1, Len(stack) - 1) EXCEPT
                   ![Len(stack) - 1].state = "returned",
                   ![Len(stack) - 1].result =
                       Joined(stack[Len(stack) - 1].bestSplit, stack[Len(stack)].result)]
    /\ UNCHANGED <<op, arg, ret, calls, files, readable, cache, now>>

\* AnalyzeCompound once the parts are looked up
AfterParts(word, looked) == Respond(looked.cache, Verdict(word, looked.breakdown))

\* AnalyzeCompound once breakDownWord has returned parts
AfterBreakdown(word, parts) ==
    IF Len(parts) <= 1 THEN Respond(cache, Response(word, << >>, FALSE, << >>))
    ELSE AfterParts(word, LookupParts(cache, parts, 1, << >>))

\* The first call of findCompoundBreaks returns to breakDownWord, and that
\* to AnalyzeCompound, which looks the parts up and returns
FinishAnalyze ==
    /\ Len(stack) = 2
    /\ stack[2].state = "returned"
    /\ stack[1].fn = "breakDownWord"
    /\ AfterBreakdown(arg.word, stack[2].result \o stack[1].trailingParticles)
    /\ UNCHANGED arg

\* The queries of the requests to the handler, which refuses the empty
\* one: a head word less its first two letters among them.
HandlerQueries ==
    { Pali.dhamma, Pali.dhammassa, << "a", "m", "m", "a" >>, << "k", "k" >> }

\* A request to DictionaryHandler.Lookup for dict=PED with analyze at its
\* default, up to its response or to the call of AnalyzeCompound(query)
\* that it makes when LookupPEDWithOptions returns no results (the call is
\* CallAnalyzeCompound, taken while op is "DictionaryHandler.Lookup")
CallLookupHandler(query, fuzzy, startsWithOnly) ==
    /\ calls < MaxAnalyses
    /\ stack = << >>
    /\ op # "DictionaryHandler.Lookup"
    /\ arg' = [word |-> query, fuzzy |-> fuzzy, startsWithOnly |-> startsWithOnly]
    /\ \E looked \in { LookupPEDWithOptions(cache, query, fuzzy, startsWithOnly) } :
          /\ cache' = looked.cache
          /\ IF Len(looked.results) > 0
             THEN /\ op' = "Lookup"
                  /\ ret' = Response(query, looked.results, FALSE, << >>)
                  /\ calls' = calls + 1
             ELSE /\ op' = "DictionaryHandler.Lookup"
                  /\ UNCHANGED <<ret, calls>>
    /\ UNCHANGED <<files, readable, now, stack>>

\* DictionaryHandler.Lookup once the AnalyzeCompound it called has
\* returned: it copies the results if there are any, and the breakdown of
\* a compound, and responds.
ReturnLookup ==
    /\ op = "AnalyzeCompound"
    /\ "startsWithOnly" \in DOMAIN arg
    /\ op' = "Lookup"
    /\ ret' = Response(arg.word, ret.Results, ret.IsCompound,
                       IF ret.IsCompound THEN ret.Breakdown ELSE << >>)
    /\ UNCHANGED <<arg, calls, files, readable, cache, now, stack>>

NextAnalyze ==
    \/ \E word \in AnalyzeWords \cup HandlerQueries : CallAnalyzeCompound(word)
    \/ EnterBreaks
    \/ ReturnBreaks
    \/ FinishAnalyze
    \/ \E query \in HandlerQueries, fuzzy \in BOOLEAN, sw \in BOOLEAN :
          CallLookupHandler(query, fuzzy, sw)
    \/ ReturnLookup

SpecAnalyze == InitAnalyze /\ [][NextAnalyze]_vars

\* The head words of the readable PED volumes
HeadWords ==
    UNION { { extractWordFromPED(files.ped[v[2]][k]) : k \in 1..Len(files.ped[v[2]]) } :
              v \in { u \in readable : u[1] = "ped" } }

\* C1: every call that findCompoundBreaks makes of itself is on a word
\* strictly shorter than its own word.
C1_RecursionShortens ==
    \A k \in 2..Len(stack) :
        (stack[k].fn = "findCompoundBreaks" /\ stack[k - 1].fn = "findCompoundBreaks")
            => Len(stack[k].word) < Len(stack[k - 1].word)

\* C7: when "dhamma" and "cakka" are head words and "dhammacakka" is not,
\* AnalyzeCompound("dhammacakka") returns a compound of exactly the two
\* parts "dhamma" and "cakka", each with a dictionary hit.
C7_TwoParts ==
    (/\ op = "AnalyzeCompound"
     /\ arg.word = Pali.dhammacakka
     /\ { Pali.dhamma, Pali.cakka } \subseteq HeadWords
     /\ Pali.dhammacakka \notin HeadWords)
        => /\ ret.IsCompound
           /\ Len(ret.Breakdown) = 2
           /\ ret.Breakdown[1].Base = Pali.dhamma
           /\ ret.Breakdown[2].Base = Pali.cakka
           /\ \A k \in 1..2 : Len(ret.Breakdown[k].Results) > 0

\* C8: when "dhamma" is a head word, AnalyzeCompound("dhammassa") returns
\* results of which the first is the head word "dhamma", and no compound.
C8_StemFirst ==
    (op = "AnalyzeCompound" /\ arg.word = Pali.dhammassa /\ Pali.dhamma \in HeadWords)
        => /\ Len(ret.Results) > 0
           /\ ret.Results[1].Word = Pali.dhamma
           /\ ~ret.IsCompound

\* C9: in every response of AnalyzeCompound, IsCompound is set only with a
\* breakdown of at least two parts of which one has a hit; a breakdown
\* without a hit is returned empty with IsCompound unset; and with results
\* IsCompound is unset and the breakdown empty.
C9_ResponseShape ==
    op = "AnalyzeCompound" =>
        /\ ret.IsCompound =>
             /\ Len(ret.Breakdown) >= 2
             /\ \E k \in 1..Len(ret.Breakdown) : Len(ret.Breakdown[k].Results) > 0
        /\ (\A k \in 1..Len(ret.Breakdown) : Len(ret.Breakdown[k].Results) = 0) =>
             (~ret.IsCompound /\ ret.Breakdown = << >>)
        /\ Len(ret.Results) > 0 => (~ret.IsCompound /\ ret.Breakdown = << >>)

\* AnalyzeCompound has returned a compound of which one part has a hit and
\* another has none.
C9_Witness ==
    /\ op = "AnalyzeCompound"
    /\ ret.IsCompound
    /\ \E k \in 1..Len(ret.Breakdown) : Len(ret.Breakdown[k].Results) > 0
    /\ \E k \in 1..Len(ret.Breakdown) : Len(ret.Breakdown[k].Results) = 0

\* The query is empty or of white space only
Blank(query) == TrimSpace(query) = << >>

\* C11: AnalyzeCompound on an empty or blank word does not return every
\* head word of the dictionary, and for a word that is not blank no step of
\* the analysis looks the empty string up.
C11_BlankRejected ==
    op = "AnalyzeCompound" =>
        IF Blank(arg.word)
        THEN HeadWords # {} =>
               HeadWords # { ret.Results[k].Word : k \in 1..Len(ret.Results) }
        ELSE \A key \in DOMAIN cache : Len(key) = 4 => key[2] # << >>

\* "ñca"
NasalCa == Rune.tn \o << "c", "a" >>

\* C12: for a word that ends in "ñca", breakDownWord hands the splitter
\* the (lower-cased) text before "ñca" with "ṃ" appended and returns a part
\* list whose last part has the base "ca"; and for every word it peels at
\* most one trailing particle.
C12_NasalLiaison ==
    stack # << >> =>
        /\ Len(stack[1].trailingParticles) <= 1
        /\ HasSuffix(stack[1].word, NasalCa) =>
              /\ stack[2].word = TrimSuffix(stack[1].word, NasalCa) \o Rune.dm
              /\ (Len(stack) = 2 /\ stack[2].state = "returned") =>
                    (stack[2].result \o stack[1].trailingParticles)
                        [Len(stack[2].result) + Len(stack[1].trailingParticles)].base
                      = << "c", "a" >>

\* breakDownWord is about to return the parts of a capitalised word that
\* ends in "ñca".
C12_Witness ==
    /\ Len(stack) = 2
    /\ stack[2].state = "returned"
    /\ HasSuffix(stack[1].word, NasalCa)
    /\ stack[1].word # arg.word
    /\ Len(stack[2].result) >= 1


----------------------------------------------------------------------------
(* GetPEDEntry *)

RECURSIVE Split(_, _)
\* strings.Split(s, sep), sep of one byte
Split(s, sep) ==
    IF \A k \in 1..Len(s) : s[k] # sep THEN << s >>
    ELSE << SubSeq(s, 1, IndexFrom(s, << sep >>, 1) - 1) >>
         \o Split(SubSeq(s, IndexFrom(s, << sep >>, 1) + 1, Len(s)), sep)

DecimalDigits == { "0", "1", "2", "3", "4", "5", "6", "7", "8", "9" }

\* ch - '0'
DigitValue(ch) == CHOOSE d \in 0..9 : Itoa(d) = << ch >>

RECURSIVE DecimalValue(_, _)
\* n = n*10 + int(ch), over the digits of s
DecimalValue(s, n) ==
    IF s = << >> THEN n ELSE DecimalValue(Tail(s), n * 10 + DigitValue(Head(s)))

\* strconv.Atoi: an optional sign and at least one decimal digit
Atoi(s) ==
    LET digits == IF s # << >> /\ s[1] \in { "+", "-" } THEN Tail(s) ELSE s
    IN  IF digits = << >> \/ \E k \in 1..Len(digits) : digits[k] \notin DecimalDigits
        THEN [err |-> TRUE, n |-> 0]
        ELSE [err |-> FALSE,
              n |-> IF s[1] = "-" THEN 0 - DecimalValue(digits, 0) ELSE DecimalValue(digits, 0)]

\* return nil, err: the nil entry is the empty sequence
NoEntry(c) == [entry |-> << >>, err |-> TRUE, cache |-> c]

\* The DictEntry that GetPEDEntry builds of entry, whose word is word
EntryOf(id, entry, word, c) ==
    [ entry |-> << [ Word |-> word,
                     Definition |-> formatDefinition(entry),
                     Source |-> "PED",
                     ID |-> id,
                     WordNorm |-> normalizeWord(word) ] >>,
      err |-> FALSE,
      cache |-> c ]

\* The mutant of EntryAt that counts the entries from 1.
EntryAtOneBased(id, entryIdx, loaded) ==
    IF loaded.err THEN NoEntry(loaded.cache)
    ELSE IF entryIdx < 1 \/ entryIdx > Len(loaded.entries) THEN NoEntry(loaded.cache)
    ELSE EntryOf(id, loaded.entries[entryIdx], extractWordFromPED(loaded.entries[entryIdx]),
                 loaded.cache)

\* GetPEDEntry once the volume is asked for: the bounds test, then
\* entries[entryIdx]
EntryAt(id, entryIdx, loaded) ==
    IF loaded.err THEN NoEntry(loaded.cache)
    ELSE IF entryIdx < 0 \/ entryIdx >= Len(loaded.entries) THEN NoEntry(loaded.cache)
    ELSE EntryOf(id, loaded.entries[entryIdx + 1],
                 extractWordFromPED(loaded.entries[entryIdx + 1]), loaded.cache)

\* The mutant of EntryIn that takes the entry of an unparsable index for
\* entry 0.
EntryInLenient(c, id, vol, entryIdx) ==
    IF vol.err THEN NoEntry(c)
    ELSE EntryAt(id, entryIdx.n, loadVolume(c, "ped", vol.n))

\* GetPEDEntry once the two parts are converted
EntryIn(c, id, vol, entryIdx) ==
    IF vol.err \/ entryIdx.err THEN NoEntry(c)
    ELSE EntryAt(id, entryIdx.n, loadVolume(c, "ped", vol.n))

EntryFrom(c, id, parts) ==
    IF Len(parts) # 2 THEN NoEntry(c)
    ELSE EntryIn(c, id, Atoi(parts[1]), Atoi(parts[2]))

GetPEDEntry(c, id) == EntryFrom(c, id, Split(id, "/"))

----------------------------------------------------------------------------
(* Lookups in PED and fetches of entries by ID, the volume files failing
   and the cache expiring in between *)

EntryVolumes == { << "ped", 0 >>, << "ped", 1 >> }

\* The IDs of the entries of three volumes (the third has no file), of the
\* indexes around the volumes, with signs and leading zeros, and strings
\* that are no IDs.
EntryIDs ==
    { EntryID(v, i) : v \in 0..2, i \in 0..3 }
    \cup { << >>, << "0" >>, << "/" >>, << "0", "/" >>, << "/", "0" >>,
           << "0", "/", "1", "/", "2" >>, << "0", "/", "/", "1" >>,
           << "a", "/", "0" >>, << "0", "/", "a" >>, << "0", "/", "1", " " >>,
           << "-", "1", "/", "0" >>, << "0", "/", "-", "1" >>, << "-", "0", "/", "1" >>,
           << "+", "0", "/", "+", "1" >>, << "0", "0", "/", "0", "1" >>,
           << "+", "/", "0" >>, << "0", "/", "-" >>, << "0", "/", "1", "0" >> }

InitEntry ==
    /\ Constructed
    /\ arg = << >>
    /\ files = LookupFiles
    /\ readable = EntryVolumes

\* A call of GetPEDEntry
CallGetPEDEntry(id) ==
    /\ calls < MaxCalls
    /\ \E r \in { GetPEDEntry(cache, id) } :
          /\ ret' = [entry |-> r.entry, err |-> r.err]
          /\ cache' = r.cache
    /\ op' = "GetPEDEntry"
    /\ arg' = [id |-> id]
    /\ calls' = calls + 1
    /\ UNCHANGED <<files, readable, now, stack>>

NextEntry ==
    \/ \E query \in LookupQueries, fuzzy \in BOOLEAN, sw \in BOOLEAN :
          CallLookupPED(query, fuzzy, sw)
    \/ \E id \in EntryIDs : CallGetPEDEntry(id)
    \/ \E v \in EntryVolumes : VolumeFails(v)
    \/ \E v \in EntryVolumes : VolumeRestored(v)
    \/ Tick

SpecEntry == InitEntry /\ [][NextEntry]_vars

\* Volume v of PED can be loaded: it is cached and not expired, or its file
\* is readable
Loadable(v) == CacheHit(cache, << "ped", "vol", v >>) \/ << "ped", v >> \in readable

\* C13: for every entry e that a PED lookup has returned, the call
\* GetPEDEntry(e.ID) that follows succeeds and returns an entry with the
\* head word and the definition of e, the file of the volume being as it
\* was, whether the volume is still cached or has expired and is reloaded.
C13_IDRoundTrip ==
    [][(op = "LookupPEDWithOptions" /\ op' = "GetPEDEntry") =>
         \A k \in 1..Len(ret.results) :
            (/\ ret.results[k].ID = arg'.id
             /\ \E v \in PedFirstVol..PedLastVol, i \in 0..3 :
                   EntryID(v, i) = arg'.id /\ << "ped", v >> \in readable)
               => /\ ~ret'.err
                  /\ Len(ret'.entry) = 1
                  /\ ret'.entry[1].Word = ret.results[k].Word
                  /\ ret'.entry[1].Definition = ret.results[k].Definition]_vars

\* GetPEDEntry has returned the entry of an ID that a lookup returned
\* before the cached volumes and the cached results expired: the volume
\* was loaded again.
C13_Witness ==
    /\ op = "GetPEDEntry"
    /\ ~ret.err
    /\ now = MaxTime
    /\ \E key \in DOMAIN cache :
          /\ Len(key) = 4
          /\ now > cache[key].expiresAt
          /\ \E k \in 1..Len(cache[key].value) : cache[key].value[k].ID = arg.id
    /\ \E v \in { 0, 1 } :
          /\ << "ped", "vol", v >> \in DOMAIN cache
          /\ cache[<< "ped", "vol", v >>].expiresAt = now + CacheTTL
          /\ HasPrefix(arg.id, Itoa(v))

\* s is the decimal text of an integer: an optional sign and digits
IntegerText(s) ==
    \E d \in 1..Len(s) :
        /\ d >= Len(s) - 1
        /\ d = Len(s) - 1 => s[1] \in { "+", "-" }
        /\ \A k \in (Len(s) - d + 1)..Len(s) : s[k] \in DecimalDigits

\* s is a decimal text of the integer n, of at most two leading zeros
Denotes(s, n) ==
    \E sign \in { << >>, << "+" >>, << "-" >> },
       zeros \in { << >>, << "0" >>, << "0", "0" >> } :
        /\ s = sign \o zeros \o Itoa(IF n < 0 THEN 0 - n ELSE n)
        /\ sign = << "-" >> => n <= 0
        /\ n < 0 => sign = << "-" >>

\* id is "volume/index" of two integers
TwoIntegers(id) ==
    \E k \in 1..Len(id) :
        /\ id[k] = "/"
        /\ IntegerText(SubSeq(id, 1, k - 1))
        /\ IntegerText(SubSeq(id, k + 1, Len(id)))

\* id is "v/i"
IDOf(id, v, i) ==
    \E k \in 1..Len(id) :
        /\ id[k] = "/"
        /\ Denotes(SubSeq(id, 1, k - 1), v)
        /\ Denotes(SubSeq(id, k + 1, Len(id)), i)

\* C14: GetPEDEntry returns an error and no entry for every ID that is not
\* "volume/index" of two integers, for every index that is negative or not
\* less than the number of entries of the volume, and for every volume that
\* cannot be loaded; it returns an entry only for an index within a volume
\* that loads, and the entry is the one at that index.
C14_EntryNotFound ==
    [][(op' = "GetPEDEntry" /\ calls' # calls) =>
         /\ ret'.err => ret'.entry = << >>
         /\ ~TwoIntegers(arg'.id) => ret'.err
         /\ \A v \in -1..2, i \in -1..10 :
               IDOf(arg'.id, v, i) =>
                  IF Loadable(v) /\ 0 <= i /\ i < Len(files.ped[v])
                  THEN /\ ~ret'.err
                       /\ Len(ret'.entry) = 1
                       /\ ret'.entry[1].Word = extractWordFromPED(files.ped[v][i + 1])
                       /\ ret'.entry[1].Definition = formatDefinition(files.ped[v][i + 1])
                  ELSE ret'.err]_vars

\* GetPEDEntry has returned an error for the index that is the number of
\* entries of a volume that loaded.
C14_Witness ==
    /\ op = "GetPEDEntry"
    /\ ret.err
    /\ ret.entry = << >>
    /\ CacheHit(cache, << "ped", "vol", 1 >>)
    /\ arg.id = EntryID(1, Len(files.ped[1]))

----------------------------------------------------------------------------
(* Two lookups in PED run as goroutines on one cache, beside the cleanup
   goroutine of the cache and a caller of Delete. stack[g] is the frame of
   goroutine g; op, arg and ret are those of the goroutine that moved
   last. *)

Lookups == { 1, 2 }

Janitor == 3

\* The janitor locks c.mu at most MaxSweeps times.
MaxSweeps == 1

\* The calls of the goroutines: two queries of one cache key.
RaceCalls ==
    { [query |-> Pali.da, fuzzy |-> TRUE],
      [query |-> << "d" >> \o Rune.aa, fuzzy |-> TRUE] }

\* The frame of a goroutine: where it is, the query it serves, the volume
\* it is at, the entries it has loaded, its results, and whether a Get of
\* it has read the map while it was being written. Of the frame of the
\* janitor, vol counts the times it has locked c.mu and query is the key it
\* deletes.
RaceFrame(pc, query, q, vol, entries, results, torn) ==
    [ pc |-> pc, query |-> query, q |-> q, vol |-> vol, entries |-> entries,
      results |-> results, torn |-> torn ]

Idle == RaceFrame("idle", << >>, << >>, 0, << >>, << >>, FALSE)

\* A goroutine holds c.mu for writing: it is inside Set, Delete or the
\* sweep of cleanup.
Writing == \E g \in Lookups \cup { Janitor } :
               stack[g].pc \in { "storing", "saving", "sweeping", "deleting" }

\* The mutant of CanRLock that does not wait for the writer.
CanRLockAnyway == TRUE

\* c.mu.RLock() returns: no goroutine holds c.mu for writing
CanRLock == ~Writing

\* c.mu.Lock() returns (the read sections are single steps, so no reader
\* holds c.mu between steps)
CanLock == ~Writing

InitRace ==
    /\ op = "none"
    /\ arg = << >>
    /\ ret = << >>
    /\ calls = 0
    /\ cache = << >>
    /\ now = 0
    /\ files = LookupFiles
    /\ readable = EntryVolumes
    /\ stack = << Idle, Idle, Idle >>

\* Goroutine g moves to frame f by the step name.
Step(g, name, f) ==
    /\ stack' = [stack EXCEPT ![g] = f]
    /\ op' = name
    /\ arg' = g

\* The lookup of goroutine g returns results.
Returning(g, f, results) ==
    /\ Step(g, "return", [f EXCEPT !.pc = "returned", !.results = results])
    /\ ret' = (g :> results) @@ ret
    /\ calls' = calls + 1

\* The loop over the volumes goes on after volume f.vol, results being the
\* matches so far; after the last volume comes the ranking.
NextVolume(g, name, f, results) ==
    /\ Step(g, name, [f EXCEPT !.pc = IF f.vol + 1 > PedLastVol THEN "sort" ELSE "load",
                               !.vol = f.vol + 1,
                               !.entries = << >>,
                               !.results = results])
    /\ UNCHANGED <<ret, calls>>

\* The entries of volume f.vol are loaded: the loop scans them.
Scanned(g, name, f, entries) ==
    NextVolume(g, name, f, f.results \o ScanPEDEntries(entries, f.vol, 0, f.q))

\* LookupPEDWithOptions up to the return of p.cache.Get(cacheKey): a hit
\* is returned, a miss starts the loop over the volumes.
Probed(g, f) ==
    IF CacheHit(cache, QueryKey("ped", f.q))
    THEN Returning(g, f, cache[QueryKey("ped", f.q)].value)
    ELSE /\ Step(g, "Get", [f EXCEPT !.pc = "load", !.vol = PedFirstVol])
         /\ UNCHANGED <<ret, calls>>

CallLookupRace(g, query, fuzzy) ==
    /\ stack[g].pc = "idle"
    /\ \A h \in Lookups : h < g => stack[h].pc # "idle"
    /\ CanRLock
    /\ Probed(g, RaceFrame("idle", query, Prepared(query, fuzzy, FALSE), 0, << >>, << >>,
                           Writing))
    /\ UNCHANGED <<files, readable, cache, now>>

\* loadPEDVolume up to the return of p.cache.Get(cacheKey)
GetVolume(g) ==
    /\ stack[g].pc = "load"
    /\ CanRLock
    /\ IF CacheHit(cache, << "ped", "vol", stack[g].vol >>)
       THEN Scanned(g, "Get", [stack[g] EXCEPT !.torn = @ \/ Writing],
                    cache[<< "ped", "vol", stack[g].vol >>].value)
       ELSE /\ Step(g, "Get", [stack[g] EXCEPT !.pc = "read", !.torn = @ \/ Writing])
            /\ UNCHANGED <<ret, calls>>
    /\ UNCHANGED <<files, readable, cache, now>>

\* os.ReadFile and xml.Unmarshal in loadPEDVolume: on an error the loop
\* goes on with the next volume.
ReadFile(g) ==
    /\ stack[g].pc = "read"
    /\ IF << "ped", stack[g].vol >> \in readable
       THEN /\ Step(g, "ReadFile", [stack[g] EXCEPT !.pc = "store",
                                                     !.entries = files.ped[stack[g].vol]])
            /\ UNCHANGED <<ret, calls>>
       ELSE NextVolume(g, "ReadFile", stack[g], stack[g].results)
    /\ UNCHANGED <<files, readable, cache, now>>

\* c.mu.Lock() in Set
LockSet(g) ==
    /\ stack[g].pc \in { "store", "save" }
    /\ CanLock
    /\ Step(g, "Lock", [stack[g] EXCEPT !.pc = IF @ = "store" THEN "storing" ELSE "saving"])
    /\ UNCHANGED <<ret, calls, files, readable, cache, now>>

\* The rest of p.cache.Set(cacheKey, top.Entries); loadPEDVolume returns
\* and the loop scans the entries.
SetVolume(g) ==
    /\ stack[g].pc = "storing"
    /\ cache' = CacheSet(cache, << "ped", "vol", stack[g].vol >>, stack[g].entries)
    /\ Scanned(g, "Set", stack[g], stack[g].entries)
    /\ UNCHANGED <<files, readable, now>>

\* sortResultsByRelevance(results, query, fuzzy)
SortRace(g) ==
    /\ stack[g].pc = "sort"
    /\ Step(g, "sortResultsByRelevance",
            [stack[g] EXCEPT !.pc = "save",
                             !.results = sortResultsByRelevance(@, stack[g].query,
                                                                stack[g].q.fuzzy)])
    /\ UNCHANGED <<ret, calls, files, readable, cache, now>>

\* The rest of p.cache.Set(cacheKey, results), and the return
SetResults(g) ==
    /\ stack[g].pc = "saving"
    /\ cache' = CacheSet(cache, QueryKey("ped", stack[g].q), stack[g].results)
    /\ Returning(g, stack[g], stack[g].results)
    /\ UNCHANGED <<files, readable, now>>

\* c.mu.Lock() in cleanup, when the ticker fires
LockCleanup ==
    /\ stack[Janitor].pc = "idle"
    /\ stack[Janitor].vol < MaxSweeps
    /\ CanLock
    /\ Step(Janitor, "Lock", [stack[Janitor] EXCEPT !.pc = "sweeping", !.vol = @ + 1])
    /\ UNCHANGED <<ret, calls, files, readable, cache, now>>

\* The sweep of cleanup: the expired items are deleted.
Sweep ==
    /\ stack[Janitor].pc = "sweeping"
    /\ cache' = [key \in { k \in DOMAIN cache : ~(now > cache[k].expiresAt) } |-> cache[key]]
    /\ Step(Janitor, "cleanup", [stack[Janitor] EXCEPT !.pc = "idle"])
    /\ UNCHANGED <<ret, calls, files, readable, now>>

\* c.mu.Lock() in Delete(key)
LockDelete(key) ==
    /\ stack[Janitor].pc = "idle"
    /\ stack[Janitor].vol < MaxSweeps
    /\ key \in DOMAIN cache
    /\ CanLock
    /\ Step(Janitor, "Lock", [stack[Janitor] EXCEPT !.pc = "deleting", !.vol = @ + 1,
                                                     !.query = key])
    /\ UNCHANGED <<ret, calls, files, readable, cache, now>>

\* delete(c.items, key)
Delete ==
    /\ stack[Janitor].pc = "deleting"
    /\ cache' = [key \in DOMAIN cache \ { stack[Janitor].query } |-> cache[key]]
    /\ Step(Janitor, "Delete", [stack[Janitor] EXCEPT !.pc = "idle", !.query = << >>])
    /\ UNCHANGED <<ret, calls, files, readable, now>>

\* Time passes while a lookup is on its way
TickRace ==
    /\ now < MaxTime
    /\ \E g \in Lookups : stack[g].pc \notin { "idle", "returned" }
    /\ now' = now + 1
    /\ UNCHANGED <<op, arg, ret, calls, files, readable, cache, stack>>

NextRace ==
    \/ \E g \in Lookups, call \in RaceCalls : CallLookupRace(g, call.query, call.fuzzy)
    \/ \E g \in Lookups : GetVolume(g)
    \/ \E g \in Lookups : ReadFile(g)
    \/ \E g \in Lookups : LockSet(g)
    \/ \E g \in Lookups : SetVolume(g)
    \/ \E g \in Lookups : SortRace(g)
    \/ \E g \in Lookups : SetResults(g)
    \/ LockCleanup
    \/ Sweep
    \/ \E key \in DOMAIN cache : LockDelete(key)
    \/ Delete
    \/ TickRace

SpecRace == InitRace /\ [][NextRace]_vars

\* No Get has read the map while it was being written; the lookups that
\* have returned for one cache key have returned equal values, and the
\* cache holds that value under the key if it holds any.
RaceSafe ==
    /\ \A g \in Lookups : ~stack[g].torn
    /\ \A g \in DOMAIN ret, h \in DOMAIN ret :
          QueryKey("ped", stack[g].q) = QueryKey("ped", stack[h].q) => ret[g] = ret[h]
    /\ \A g \in DOMAIN ret :
          QueryKey("ped", stack[g].q) \in DOMAIN cache
             => cache[QueryKey("ped", stack[g].q)].value = ret[g]

\* C15: under every interleaving of two lookups with the loads of the
\* volumes, the sweep of cleanup and Delete on one cache, no Get reads the
\* map while a writer is in it; lookups that race to fill one key return
\* equal values, of which the cache holds one; and the value the cache
\* holds under a key (a volume or a result list) never changes.
C15_RaceFree ==
    [][/\ RaceSafe'
       /\ \A key \in DOMAIN cache \cap DOMAIN cache' :
             cache'[key].value = cache[key].value]_vars

\* Both lookups have scanned the volumes and stored their results, for two
\* queries of one cache key, and the volume 0 was stored twice.
C15_Witness ==
    /\ \A g \in Lookups : stack[g].pc = "returned" /\ stack[g].vol > PedLastVol
    /\ stack[1].query # stack[2].query
    /\ Len(ret[1]) > 1
    /\ << "ped", "vol", 0 >> \in DOMAIN cache
    /\ cache[<< "ped", "vol", 0 >>].expiresAt > CacheTTL

\* C16: with startsWithOnly, matchesQuery holds of a word and a query iff
\* the word starts with the query, and every entry that the handler
\* returns for a request with sw=true (dict=PED, analyze at its default)
\* has a head word that, in the form the lookup compares, starts with the
\* query in the form the lookup compares.
C16_StartsWithOnly ==
    /\ \A word \in StringsOver({ << "a" >>, << "m" >> }, 2),
          query \in StringsOver({ << "a" >>, << "m" >> }, 2) :
          matchesQuery(word, query, TRUE) <=> HasPrefix(word, query)
    /\ (op = "Lookup" /\ arg.startsWithOnly) =>
          \A k \in 1..Len(ret.Results) :
              HasPrefix(WordToMatch(ret.Results[k].Word,
                                    Prepared(arg.word, arg.fuzzy, TRUE)),
                        Prepared(arg.word, arg.fuzzy, TRUE).matchQuery)

----------------------------------------------------------------------------
(* extractWordFromPED on entries that begin with an emphasis span holding
   a superscript marker, and on entries that do not begin with one *)

\* The texts of the emphasis spans, each with the head word it stands for:
\* a word, a word with a diacritic, a compound prefix with its trailing
\* separator, and a compound with the separator inside.
HeadTexts ==
    { [text |-> << "A", "b" >>, word |-> << "A", "b" >>],
      [text |-> << "A" >> \o Rune.aa, word |-> << "A" >> \o Rune.aa],
      [text |-> << "A", "b", " ", "-", "-", " " >>, word |-> << "A", "b" >>],
      [text |-> << "A", " ", "-", "-" >>, word |-> << "A" >>],
      [text |-> << "A", " ", "-", "-", " ", "b" >>,
       word |-> << "A", " ", "-", "-", " ", "b" >>] }

\* The superscript markers
HeadMarkers ==
    { << "<", "s", "u", "p", ">", "2", "<", "/", "s", "u", "p", ">" >>,
      << "<", "s", "u", "p", ">", "1", "0", "<", "/", "s", "u", "p", ">" >> }

\* The offsets of text between two of its characters, and its two ends
Boundaries(text) ==
    { Len(Flatten(SubSeq(Runes(text), 1, j))) : j \in 0..Len(Runes(text)) }

\* The markup characters as entities, as in an entry that is stored
\* escaped
Escape(s) ==
    ReplaceAll(ReplaceAll(s, << "<" >>, << "&", "l", "t", ";" >>),
               << ">" >>, << "&", "g", "t", ";" >>)

\* The entry of the span of text with marker at offset k, within <i> or
\* not, after lead and before tail, escaped or not
HeadEntry(text, marker, k, italic, lead, tail, escaped) ==
    LET marked == SubSeq(text, 1, k) \o marker \o SubSeq(text, k + 1, Len(text))
        span == IF italic THEN << "<", "i", ">" >> \o marked \o << "<", "/", "i", ">" >>
                ELSE marked
        entry == lead \o << "<", "b", ">" >> \o span \o << "<", "/", "b", ">" >> \o tail
    IN  IF escaped THEN Escape(entry) ELSE entry

HeadLeads == { << >>, << " " >> }

HeadTails == { << >>, << " ", "x" >>, << " ", "<", "b", ">", "c", "<", "/", "b", ">" >> }

\* Entries that do not begin with a closed emphasis span
Spanless ==
    { << >>, << "x" >>, << "x", " ", "<", "b", ">", "A", "<", "/", "b", ">" >>,
      << "<", "i", ">", "A", "<", "/", "i", ">" >>, << "<", "b", ">", "A" >>,
      << "<", "s", "u", "p", ">", "2", "<", "/", "s", "u", "p", ">", "A" >> }

HeadEntries ==
    Spanless
    \cup UNION { { HeadEntry(t.text, marker, k, italic, lead, tail, escaped) :
                     marker \in HeadMarkers, k \in Boundaries(t.text), italic \in BOOLEAN,
                     lead \in HeadLeads, tail \in HeadTails, escaped \in BOOLEAN } :
                  t \in HeadTexts }

InitHead ==
    /\ Constructed
    /\ arg \in HeadEntries
    /\ files = NoFiles
    /\ readable = {}

\* word := extractWordFromPED(arg)
ExtractWord ==
    /\ op = "none"
    /\ op' = "extractWordFromPED"
    /\ ret' = extractWordFromPED(arg)
    /\ UNCHANGED <<arg, calls, files, readable, cache, now, stack>>

NextHead == ExtractWord

SpecHead == InitHead /\ [][NextHead]_vars

\* What is seen of marker, italic, lead and escaped in the entry arg that
\* holds them
EntryLike(marker, italic, lead, escaped) ==
    /\ Contains(marker, << "1", "0" >>) = Contains(arg, << "1", "0" >>)
    /\ italic = Contains(arg, << "/", "i" >>)
    /\ (lead = << " " >>) = HasPrefix(arg, << " " >>)
    /\ escaped = Contains(arg, << "&" >>)

\* C17: of an entry whose leading emphasis span holds a superscript marker,
\* extractWordFromPED returns the text of the span without the marker and
\* the other markup, byte for byte, less a separator "--" that ends it (a
\* separator inside the head word stays); of an entry that does not begin
\* with an emphasis span it returns the empty string.
C17_HeadwordExtracted ==
    op = "extractWordFromPED" =>
        /\ arg \in Spanless => ret = << >>
        /\ \A marker \in HeadMarkers, italic \in BOOLEAN, lead \in HeadLeads,
              escaped \in BOOLEAN :
              EntryLike(marker, italic, lead, escaped) =>
                 \A t \in HeadTexts :
                    \A k \in Boundaries(t.text), tail \in HeadTails :
                       arg = HeadEntry(t.text, marker, k, italic, lead, tail, escaped)
                          => ret = t.word

\* The head word of an escaped entry with a marker inside the separator of
\* a compound is extracted, the separator kept.
C17_Witness ==
    /\ op = "extractWordFromPED"
    /\ Contains(arg, << "-", "&", "l", "t", ";", "s", "u", "p", "&", "g", "t", ";" >>)
    /\ ret = << "A", " ", "-", "-", " ", "b" >>

\* The place of the entry e in the list
PlaceIn(list, e) == CHOOSE k \in 1..Len(list) : list[k] = e

ParticleTable ==
    << << "c", "a" >>, << "p", "i" >>, << "e", "v", "a" >>, << "k", "h", "o" >>,
       << "p", "a", "n", "a" >>, << "h", "i" >>, << "t", "u" >>, << "v", "a" >>,
       << "t", "i" >>, << "c", "e" >>, << "v", "e" >>, << "n", "u" >>, << "s", "u" >> >>

\* The places in the table of the particles of which a pattern fits word
Fitting(word) ==
    { k \in 1..Len(ParticleTable) :
        \E p \in paliParticles : p.suffix = ParticleTable[k] /\ StripBy(word, p).found }

\* C19: breakDownWord strips the first particle of the table, in the order
\* it is written in, of which a pattern fits the word, and none when none
\* fits: what it strips is fixed by the word.
C19_TableOrder ==
    stack # << >> =>
        IF Fitting(stack[1].word) = {}
        THEN stack[1].trailingParticles = << >>
        ELSE /\ Len(stack[1].trailingParticles) = 1
             /\ \A k \in Fitting(stack[1].word) :
                   (\A j \in Fitting(stack[1].word) : k <= j)
                      => stack[1].trailingParticles[1].original = ParticleTable[k]

\* The offset i of word is between two characters of which one is a vowel.
VowelBoundary(word, i) ==
    /\ i \in Boundaries(word)
    /\ 0 < i /\ i < Len(word)
    /\ \/ Runes(SubSeq(word, 1, i))[Len(Runes(SubSeq(word, 1, i)))] \in Vowels
       \/ Runes(SubSeq(word, i + 1, Len(word)))[1] \in Vowels

\* C20: every split that a call of findCompoundBreaks has scored cuts its
\* word between two characters of which one is a vowel, words with
\* characters of more than one byte included.
C20_SplitAtVowelBoundary ==
    \A f \in 2..Len(stack) :
        (stack[f].state # "called" /\ Len(stack[f].word) >= 4) =>
            \A k \in 1..Len(SplitCandidates(stack[f].word, 2)) :
                VowelBoundary(stack[f].word,
                              Len(SplitCandidates(stack[f].word, 2)[k].first.original))

\* C21: breakDownWord strips a particle by the plain suffix pattern only
\* from a word whose stem, the particle removed, is longer than the
\* particle by more than two characters.
C21_PlainSuffixLength ==
    (/\ Len(stack) >= 2
     /\ stack[1].fn = "breakDownWord"
     /\ Len(stack[1].trailingParticles) = 1)
        => (stack[1].word = stack[2].word \o stack[1].trailingParticles[1].original
              => Len(Runes(stack[2].word))
                   > Len(Runes(stack[1].trailingParticles[1].original)) + 2)

\* C22: breakDownWord never strips by the doubled pattern a particle whose
\* first letter is a vowel: a word that ends in that letter followed by
\* the particle is not left without both.
C22_NoDoubledVowel ==
    (/\ Len(stack) >= 2
     /\ stack[1].fn = "breakDownWord"
     /\ Len(stack[1].trailingParticles) = 1
     /\ Runes(stack[1].trailingParticles[1].original)[1] \in Vowels)
        => stack[1].word # stack[2].word
                             \o Runes(stack[1].trailingParticles[1].original)[1]
                             \o stack[1].trailingParticles[1].original

RECURSIVE ValidCandidates(_, _)
\* The sandhi candidates of the splits of word at the offsets from i on
\* that lie between two characters of which one is a vowel, in the order
\* of the offsets and, at one offset, of generation.
ValidCandidates(word, i) ==
    IF i >= Len(word) THEN << >>
    ELSE (IF VowelBoundary(word, i)
          THEN generateSandhiCandidates(SubSeq(word, 1, i), SubSeq(word, i + 1, Len(word)))
          ELSE << >>)
         \o ValidCandidates(word, i + 1)

\* 10 for each part of the candidate whose base has a dictionary hit
ScoreOf(candidate) ==
    Points(LookupPED(cache, candidate.first.base))
        + Points(LookupPED(cache, candidate.second.base))

\* What the claim has findCompoundBreaks keep of the candidates: the first
\* of those of the highest score, or the whole word when none scores.
KeptOf(word, cands) ==
    IF \A k \in 1..Len(cands) : ScoreOf(cands[k]) = 0
    THEN << Part(word, word) >>
    ELSE LET k == CHOOSE k \in 1..Len(cands) :
                     /\ \A j \in 1..Len(cands) : ScoreOf(cands[j]) <= ScoreOf(cands[k])
                     /\ \A j \in 1..(k - 1) : ScoreOf(cands[j]) < ScoreOf(cands[k])
         IN  << cands[k].first, cands[k].second >>

\* C23: a call of findCompoundBreaks on a word of four bytes or more keeps
\* of all sandhi candidates at all valid offsets the first of the highest
\* score (10 for each part with a dictionary hit), and the whole word as
\* one part when no candidate scores.
C23_BestSplitKept ==
    \A f \in 2..Len(stack) :
        (stack[f].state # "called" /\ Len(stack[f].word) >= 4) =>
            (IF stack[f].bestSplit # << >> THEN stack[f].bestSplit ELSE stack[f].result)
                = KeptOf(stack[f].word, ValidCandidates(stack[f].word, 1))

\* The head word is equal to the stem candidate under the normalization
\* that the starts-with-only lookup of the candidate matches with.
EqualForm(word, q) == WordToMatch(word, q) = q.matchQuery

\* The stemming stage returns results for the candidate stem: no
\* candidate tried before it has a head word equal to it, and every result
\* is a head word equal to stem.
ReturnsAt(stems, k) ==
    /\ \A j \in 2..(k - 1) :
          ~\E w \in HeadWords : EqualForm(w, Prepared(stems[j], FALSE, TRUE))
    /\ \E w \in HeadWords : EqualForm(w, Prepared(stems[k], FALSE, TRUE))
    /\ \A i \in 1..Len(ret.Results) :
          EqualForm(ret.Results[i].Word, Prepared(stems[k], FALSE, TRUE))

\* C24: when the stemming stage of AnalyzeCompound returns results, they
\* are the head words equal, under the normalization of the matching, to
\* the first stem candidate after the word itself that has such a head
\* word; a head word that merely begins with the candidate is not among
\* them.
C24_StemEquality ==
    (/\ op = "AnalyzeCompound"
     /\ Len(ret.Results) > 0
     /\ Len(LookupPED(cache, arg.word).results) = 0)
        => \E k \in 2..Len(getStemCandidates(arg.word)) :
              ReturnsAt(getStemCandidates(arg.word), k)

\* C25: every stem candidate after the first is stem + extension for a
\* row of the ending table whose ending the word ends with, the stem left
\* having at least two characters: no candidate comes from a stem of one
\* character, a letter of more than one byte included.
C25_StemTwoCharacters ==
    op = "getStemCandidates" =>
        \A i \in 2..Len(ret) :
            \E h \in (1..Len(paliNounEndings)) \X (1..3) :
                /\ h[2] <= Len(paliNounEndings[h[1]][2])
                /\ HasSuffix(ToLower(arg), paliNounEndings[h[1]][1])
                /\ Len(Runes(TrimSuffix(ToLower(arg), paliNounEndings[h[1]][1]))) >= 2
                /\ ret[i] = Hypothesis(ToLower(arg), h)

----------------------------------------------------------------------------
(* The two directions of the transliteration *)

\* The pairs of the replacer of toUnicode, in argument order
UnicodeTable ==
    << << << "a", "a" >>, Rune.aa >>, << << "i", "i" >>, Rune.ii >>,
       << << "u", "u" >>, Rune.uu >>,
       << << ".", "t" >>, Rune.dt >>, << << ".", "d" >>, Rune.dd >>,
       << << ".", "n" >>, Rune.dn >>,
       << << ".", "m" >>, Rune.dm >>, << << ".", "l" >>, Rune.dl >>,
       << << "\"", "n", "k" >>, Rune.qn \o << "k" >> >>,
       << << "\"", "n", "g" >>, Rune.qn \o << "g" >> >>,
       << << "\"", "n" >>, Rune.qn >>,
       << << "~", "n" >>, Rune.tn >>,
       << << "A", "A" >>, Rune.AA >>, << << "I", "I" >>, Rune.II >>,
       << << "U", "U" >>, Rune.UU >>,
       << << ".", "T" >>, Rune.DT >>, << << ".", "D" >>, Rune.DD >>,
       << << ".", "N" >>, Rune.DN >>,
       << << ".", "M" >>, Rune.DM >>, << << ".", "L" >>, Rune.DL >>,
       << << "\"", "N" >>, Rune.QN >>, << << "~", "N" >>, Rune.TN >>,
       << << ".", "l", "l" >>, Rune.dll >>, << << ".", "r" >>, Rune.dr >>,
       << << ".", "r", "r" >>, Rune.drr >>,
       << << ".", "s" >>, Rune.ds >>, << << "\"", "s" >>, Rune.qs >>,
       << << ".", "h" >>, Rune.dh >> >>

\* toUnicode: Velthuis notation to Unicode Pali.
toUnicode(input) == IF input = << >> THEN input ELSE Replace(UnicodeTable, input)

\* The characters and the patterns of the two tables, and words of them
CodecInputs ==
    { VelthuisTable[k][1] : k \in 1..Len(VelthuisTable) }
        \cup { UnicodeTable[k][1] : k \in 1..Len(UnicodeTable) }
        \cup { Pali.dhamma, Pali.asha, << >>,
               << "s", "a" >> \o Rune.qn \o << "k", "h", "a" >>,
               << "s", "a", "\"", "n", "k", "h", "a" >> }

InitCodec ==
    /\ Constructed
    /\ arg \in CodecInputs
    /\ files = NoFiles
    /\ readable = {}

\* v := toVelthuis(arg)
CallToVelthuis ==
    /\ op = "none"
    /\ op' = "toVelthuis"
    /\ ret' = toVelthuis(arg)
    /\ UNCHANGED <<arg, calls, files, readable, cache, now, stack>>

\* u := toUnicode(arg)
CallToUnicode ==
    /\ op = "none"
    /\ op' = "toUnicode"
    /\ ret' = toUnicode(arg)
    /\ UNCHANGED <<arg, calls, files, readable, cache, now, stack>>

\* toUnicode(v), on the output of toVelthuis(arg)
CallToUnicodeBack ==
    /\ op = "toVelthuis"
    /\ op' = "toUnicode(toVelthuis)"
    /\ ret' = toUnicode(ret)
    /\ stack' = << ret >>
    /\ UNCHANGED <<arg, calls, files, readable, cache, now>>

NextCodec == CallToVelthuis \/ CallToUnicode \/ CallToUnicodeBack

SpecCodec == InitCodec /\ [][NextCodec]_vars

\* C26: in both directions a pattern of the table standing alone is
\* replaced whole, also when a shorter pattern of the table is a prefix of
\* it (".ll", ".rr", "\"nk", "\"ng"); and toUnicode(toVelthuis(c)) = c for
\* every single character c of the table of toVelthuis.
C26_LongestPattern ==
    /\ op = "toVelthuis" =>
          \A k \in 1..Len(VelthuisTable) :
              arg = VelthuisTable[k][1] => ret = VelthuisTable[k][2]
    /\ op = "toUnicode" =>
          \A k \in 1..Len(UnicodeTable) :
              arg = UnicodeTable[k][1] => ret = UnicodeTable[k][2]
    /\ op = "toUnicode(toVelthuis)" =>
          \A k \in 1..Len(VelthuisTable) : arg = VelthuisTable[k][1] => ret = arg

----------------------------------------------------------------------------
(* Lookups of different spellings of one word, the volumes staying as
   they are *)

\* Spellings that differ in letter case or in a diacritic
KeyQueries == { Pali.da, << "D", "a" >>, << "d" >> \o Rune.aa, << "D", "A" >> }

InitKey == InitLookup

\* A call of LookupPEDWithOptions or of LookupDPPNWithOptions (src) with a
\* query spelled otherwise than that of the call before
CallLookupSpelled(src, query, fuzzy, startsWithOnly) ==
    /\ arg # << >> => arg.query # query
    /\ IF src = "ped" THEN CallLookupPED(query, fuzzy, startsWithOnly)
       ELSE CallLookupDPPN(query, fuzzy, startsWithOnly)

NextKey ==
    \/ \E src \in { "ped", "dppn" }, query \in KeyQueries, fuzzy \in BOOLEAN, sw \in BOOLEAN :
          CallLookupSpelled(src, query, fuzzy, sw)
    \/ Tick

SpecKey == InitKey /\ [][NextKey]_vars

\* What the lookup in src computes for the query without the cache
Fresh(src, query, fuzzy, startsWithOnly) ==
    IF src = "ped" THEN LookupPEDWithOptions(<< >>, query, fuzzy, startsWithOnly).results
    ELSE LookupDPPNWithOptions(<< >>, query, fuzzy, startsWithOnly).results

\* The source of the lookup that has returned
Source == IF op = "LookupPEDWithOptions" THEN "ped" ELSE "dppn"

\* C27: with the volumes unchanged and loadable, what a lookup returns,
\* from the cache or not, is what it computes without the cache, and every
\* spelling with the same cache key computes the same list.
C27_KeySound ==
    op \in { "LookupPEDWithOptions", "LookupDPPNWithOptions" } =>
        /\ ret.results = Fresh(Source, arg.query, arg.fuzzy, arg.startsWithOnly)
        /\ \A other \in KeyQueries :
              QueryKey(Source, Prepared(other, arg.fuzzy, arg.startsWithOnly))
                  = QueryKey(Source, Prepared(arg.query, arg.fuzzy, arg.startsWithOnly))
              => Fresh(Source, other, arg.fuzzy, arg.startsWithOnly)
                   = Fresh(Source, arg.query, arg.fuzzy, arg.startsWithOnly)

\* The second of two lookups, of "Da" after another spelling, is served
\* the list that the first stored a tick before under the key of "da".
C27_Witness ==
    /\ op = "LookupPEDWithOptions"
    /\ calls = 2
    /\ arg.query = << "D", "a" >>
    /\ arg.fuzzy
    /\ QueryKey("ped", Prepared(arg.query, TRUE, arg.startsWithOnly)) \in DOMAIN cache
    /\ cache[QueryKey("ped", Prepared(arg.query, TRUE, arg.startsWithOnly))].expiresAt = now
    /\ Len(ret.results) >= 2

----------------------------------------------------------------------------
(* The cache on its own: Get, Set, Delete and the sweep of cleanup, each
   under the lock, while time passes *)

MaxOps == 4

CacheKeys == { "k1", "k2" }
CacheValues == { "v1", "v2" }

InitCache ==
    /\ Constructed
    /\ arg = << >>
    /\ files = NoFiles
    /\ readable = {}

\* The call name(key, value) has been made at the time now: stack is the
\* record of the calls made on the cache, in order.
Called(name, key, value) ==
    /\ calls < MaxOps
    /\ op' = name
    /\ arg' = [key |-> key, value |-> value]
    /\ calls' = calls + 1
    /\ stack' = Append(stack, [op |-> name, key |-> key, value |-> value, at |-> now])
    /\ UNCHANGED <<files, readable, now>>

\* Cache.Get(key)
CallGet(key) ==
    /\ Called("Get", key, << >>)
    /\ ret' = IF CacheHit(cache, key) THEN [value |-> cache[key].value, ok |-> TRUE]
              ELSE [value |-> << >>, ok |-> FALSE]
    /\ UNCHANGED cache

\* Cache.Set(key, value)
CallSet(key, value) ==
    /\ Called("Set", key, value)
    /\ cache' = CacheSet(cache, key, value)
    /\ UNCHANGED ret

\* Cache.Delete(key)
CallDelete(key) ==
    /\ Called("Delete", key, << >>)
    /\ cache' = [k \in DOMAIN cache \ { key } |-> cache[k]]
    /\ UNCHANGED ret

\* One round of the loop of cleanup, when the ticker fires
CallCleanup ==
    /\ Called("cleanup", << >>, << >>)
    /\ cache' = [k \in { j \in DOMAIN cache : ~(now > cache[j].expiresAt) } |-> cache[k]]
    /\ UNCHANGED ret

\* Time passes between two calls
TickCache ==
    /\ calls < MaxOps
    /\ now < MaxTime
    /\ now' = now + 1
    /\ UNCHANGED <<op, arg, ret, calls, files, readable, cache, stack>>

NextCache ==
    \/ \E key \in CacheKeys : CallGet(key)
    \/ \E key \in CacheKeys, value \in CacheValues : CallSet(key, value)
    \/ \E key \in CacheKeys : CallDelete(key)
    \/ CallCleanup
    \/ TickCache

SpecCache == InitCache /\ [][NextCache]_vars

\* The place in the record of the last Set or Delete of key, 0 if none
LastWrite(key) ==
    LET ws == { i \in 1..Len(stack) : stack[i].key = key /\ stack[i].op \in { "Set", "Delete" } }
    IN  IF ws = {} THEN 0 ELSE CHOOSE i \in ws : \A j \in ws : j <= i

\* The key was last written by a Set at most one TTL ago.
Live(key) ==
    /\ LastWrite(key) > 0
    /\ stack[LastWrite(key)].op = "Set"
    /\ now <= stack[LastWrite(key)].at + CacheTTL

\* C28: Get(k) returns a value exactly when the last Set(k, v) not followed
\* by a Delete(k) was made at most one TTL ago, and then returns that v,
\* whether or not the sweep has run; the sweep removes the items expired
\* when it runs and leaves every other as it is; Set puts the value under
\* the key with a full TTL from now.
C28_CacheExpiry ==
    [][ /\ \A key \in CacheKeys :
             (op' = "Get" /\ calls' = calls + 1 /\ arg'.key = key) =>
                /\ ret'.ok = Live(key)'
                /\ ret'.ok => ret'.value = (stack[LastWrite(key)].value)'
        /\ (op' = "cleanup" /\ calls' = calls + 1) =>
             /\ \A k \in DOMAIN cache : k \notin DOMAIN cache' => now > cache[k].expiresAt
             /\ \A k \in DOMAIN cache' : k \in DOMAIN cache /\ cache'[k] = cache[k]
             /\ \A k \in DOMAIN cache \cap DOMAIN cache' : ~(now > cache[k].expiresAt)
        /\ (op' = "Set" /\ calls' = calls + 1) =>
             cache'[arg'.key] = [value |-> arg'.value, expiresAt |-> now + CacheTTL] ]_vars

\* A Get returns the value of the second Set of its key, made a TTL after
\* the first, two TTLs after the first: the second Set restarted the TTL.
C28_Witness ==
    /\ op = "Get"
    /\ ret = [value |-> "v2", ok |-> TRUE]
    /\ now = 2 * CacheTTL
    /\ Len(stack) = 3
    /\ stack[1] = [op |-> "Set", key |-> arg.key, value |-> "v1", at |-> 0]
    /\ stack[2] = [op |-> "Set", key |-> arg.key, value |-> "v2", at |-> CacheTTL]

\* The IDs of the entries that match q in the volumes of src whose files
\* are readable
ReadableIDs(src, q) ==
    { EntryID(p[1], p[2] - 1) :
        p \in { pp \in (DOMAIN files[src]) \X (1..3) :
                   /\ << src, pp[1] >> \in readable
                   /\ pp[2] <= Len(files[src][pp[1]])
                   /\ Matches(HeadWord(src, files[src][pp[1]][pp[2]]), q) } }

\* C29: a volume file that could not be read leaves nothing behind: a
\* lookup of any query, one looked up while the file was missing included,
\* returns the matching entries of every volume whose file is readable
\* when it is made.
C29_FailureNotLasting ==
    [][ \A src \in { "ped", "dppn" } :
          Returns(src) =>
            ReadableIDs(src, NextQuery)
                \subseteq { ret'.results[k].ID : k \in 1..Len(ret'.results) } ]_vars

----------------------------------------------------------------------------
(* The full-text search engine, on requests for a single book *)

\* One element of a compiled pattern: a byte, or "." of a regular
\* expression, which matches any byte of a line.
Atom(any, ch) == [any |-> any, ch |-> ch]

\* Engine.compilePattern for queries of letters and ".": the query itself
\* when isRegex, its regexp.QuoteMeta otherwise, in which "." is a byte
\* like any other.
compilePattern(query, isRegex) ==
    [k \in 1..Len(query) |-> Atom(isRegex /\ query[k] = ".", query[k])]

\* pattern.MatchString(text) under the flag (?i)
MatchString(pattern, text) ==
    \E i \in 0..(Len(text) - Len(pattern)) :
        \A k \in 1..Len(pattern) :
            pattern[k].any \/ ToLower(<< text[i + k] >>) = ToLower(<< pattern[k].ch >>)

\* Engine.buildFilePath: set, book and hier name the file.
buildFilePath(set, book, hier) == << set, book, hier >>

RECURSIVE MatchParas(_, _, _, _)
\* The loop of searchFile over the paragraphs from paraNum on: a result for
\* each paragraph that the pattern matches.
MatchParas(paras, paraNum, filePath, pattern) ==
    IF paraNum >= Len(paras) THEN << >>
    ELSE (IF MatchString(pattern, paras[paraNum + 1])
          THEN << [Set |-> filePath[1], Book |-> filePath[2] - 1, Para |-> paraNum] >>
          ELSE << >>)
         \o MatchParas(paras, paraNum + 1, filePath, pattern)

\* Engine.searchFile on the cache c: the results of the file, from the
\* cache under the key of the file path and the query text, or else
\* computed and stored under it; no results and nothing stored for a
\* file that cannot be read.
searchFile(c, filePath, pattern, query) ==
    IF CacheHit(c, << "search", filePath, query >>)
    THEN [results |-> c[<< "search", filePath, query >>].value, cache |-> c]
    ELSE IF filePath \notin readable THEN [results |-> << >>, cache |-> c]
    ELSE [results |-> MatchParas(files[filePath], 0, filePath, pattern),
          cache |-> CacheSet(c, << "search", filePath, query >>,
                             MatchParas(files[filePath], 0, filePath, pattern))]

\* if req.Limit <= 0 { req.Limit = 100 }
DefaultLimit == 100

\* allResults[start:end] of searchFiles
Page(allResults, offset, limit) ==
    SubSeq(allResults,
           (IF offset > Len(allResults) THEN Len(allResults) ELSE offset) + 1,
           IF (IF offset > Len(allResults) THEN Len(allResults) ELSE offset) + limit
                 > Len(allResults)
           THEN Len(allResults)
           ELSE (IF offset > Len(allResults) THEN Len(allResults) ELSE offset) + limit)

\* The books of the set "d", in the default hierarchy: the file of the
\* first holds four paragraphs, the file of the second does not exist.
SearchBooks ==
    (buildFilePath("d", 1, "m") :>
        << << "a", "b", "d" >>, << "a", ".", "d" >>, << "A", "B", "D" >>, << "t", "a", "d" >> >>)

SearchQueries == { << "a", ".", "d" >>, << "a", "b", "d" >>, << "A", "." >>, << >> }

InitSearch ==
    /\ Constructed
    /\ arg = << >>
    /\ files = SearchBooks
    /\ readable = DOMAIN SearchBooks

\* Engine.Search has returned response for the request
Searched(query, regex, book, response, c) ==
    /\ op' = "Search"
    /\ arg' = [Query |-> query, Regex |-> regex, Book |-> book]
    /\ ret' = response
    /\ cache' = c
    /\ calls' = calls + 1
    /\ UNCHANGED <<files, readable, now, stack>>

\* Engine.Search from searchFiles on, found being what searchFile returns
\* for the one file of the request
SearchFound(query, regex, book, found) ==
    Searched(query, regex, book,
             [Query |-> query, TotalResults |-> Len(found.results),
              Results |-> Page(found.results, 0, DefaultLimit),
              HasMore |-> Len(found.results) > Len(Page(found.results, 0, DefaultLimit))],
             found.cache)

\* Engine.Search for a request of type SearchSingleBook on the set "d",
\* limit, offset and hierarchy left at their defaults
CallSearch(query, regex, book) ==
    /\ calls < MaxCalls
    /\ IF query = << >>
       THEN Searched(query, regex, book,
                     [Query |-> query, TotalResults |-> 0, Results |-> << >>,
                      HasMore |-> FALSE], cache)
       ELSE SearchFound(query, regex, book,
                        searchFile(cache, buildFilePath("d", book + 1, "m"),
                                   compilePattern(query, regex), query))

NextSearch ==
    \/ \E query \in SearchQueries, regex \in BOOLEAN, book \in { 0, 1 } :
          CallSearch(query, regex, book)
    \/ Tick

SpecSearch == InitSearch /\ [][NextSearch]_vars

\* C30: the results of a search of a readable file are those of the
\* paragraphs that the pattern of the request matches, served from the
\* cache or not: a regex search is not given the stored results of a
\* literal search with the same query text, nor the reverse.
C30_PatternOfRequest ==
    (op = "Search" /\ arg.Query # << >> /\ buildFilePath("d", arg.Book + 1, "m") \in readable)
        => ret.Results
             = MatchParas(files[buildFilePath("d", arg.Book + 1, "m")], 0,
                          buildFilePath("d", arg.Book + 1, "m"),
                          compilePattern(arg.Query, arg.Regex))

============================================================================
